---- MODULE Spec2Model ----
(***************************************************************************)
(* getset: a sequential task runner.                                       *)
(*                                                                         *)
(* Two programs live in the repository and both are modelled here:         *)
(*   - the current one: src/bin/getset.rs -> cli.rs (UpCommand::run) ->    *)
(*     runner.rs (run_command, run_with_pty, run_without_pty);             *)
(*   - the legacy one: src/main.rs (main, run_command with two reader      *)
(*     threads and an mpsc channel).                                       *)
(* The variable `binary` says which of the two a behaviour is a run of.    *)
(***************************************************************************)
EXTENDS Integers, Sequences, FiniteSets, TLC

\* ------------------------------------------------------------------ bounds
\* longest command list of a configuration file
MaxCmds == 2
\* most lines the children of a run write to the terminal they inherit
MaxLines == 1
\* most lines a child writes to its two pipes together (legacy)
MaxPipeLines == 2
\* the lines a pipe of the kernel holds before a write to it blocks
PipeCap == 1

\* ------------------------------------------------------- Option<T> of Rust
None == <<>>
Some(x) == <<x>>
IsSome(o) == Len(o) = 1
Unwrap(o) == o[1]

\* ------------------------------------------------------------------ inputs
\* Titles are strings, modelled as sequences of one-character strings.
TitleBa == <<"B", "a">>
TitleAb == <<"a", "b">>

\* CommandEntry { title, command }
EntryPool ==
    { [title |-> TitleBa, command |-> "c1"],
      [title |-> TitleAb, command |-> "c2"] }

\* the values --step takes (None: the flag is absent): "b" is in both titles,
\* "BA" in the first only, once lower-cased, and "c" in neither
StepPool ==
    { None, Some(<<"b">>), Some(<<"B", "A">>), Some(<<"c">>) }

\* config.commands: every list of at most MaxCmds entries
CommandLists ==
    UNION { [1..n -> EntryPool] : n \in 0..MaxCmds }

\* ------------------------------------------------------------- str helpers
\* char::to_lowercase on the characters of the model
LowerChar(c) ==
    CASE c = "A" -> "a"
      [] c = "B" -> "b"
      [] c = "C" -> "c"
      [] OTHER -> c

\* str::to_lowercase
to_lowercase(s) ==
    [k \in 1..Len(s) |-> LowerChar(s[k])]

\* str::contains(&str): the needle occurs at some offset of the haystack
contains(hay, needle) ==
    \E off \in 0..(Len(hay) - Len(needle)) :
        SubSeq(hay, off + 1, off + Len(needle)) = needle

VARIABLES
    binary,          \* "getset" (src/bin/getset.rs) or "legacy" (src/main.rs)
    load,            \* what reading and parsing the file yields: "ok", "read_err", "parse_err"
    commands,        \* config.commands
    platformx,       \* config.platformx is Some
    step,            \* UpCommand.step: Option<String>
    verbose,         \* UpCommand.verbose
    report,          \* UpCommand.report
    is_terminal,     \* io::stdout().is_terminal()
    pc,              \* position of the main thread
    commands_to_run, \* Vec<&CommandEntry>: indices into commands
    i,               \* number of entries of commands_to_run the loop has consumed
    results,         \* Vec<CommandResult>
    err,             \* the Err(String) run_command is returning
    run_result,      \* what UpCommand::run returned: "pending", "Ok", "Err"
    exit_code,       \* Option<i32>: the exit code of the process
    out,             \* what the user has seen: lines on the terminal, in order
    events,          \* the events sent to PlatformX, each with the Result of its send
    calls,           \* the invocations of run_command and what each returned
    procs,           \* the shell children spawned so far
    now,             \* the clock (Instant::now())
    timer,           \* UpCommand::run's timer
    cmd_timer,       \* run_with_pty's / run_without_pty's timer
    spinner,         \* legacy: the messages the spinner has shown since it was created
    pipes,           \* legacy: the lines in the child's stdout and stderr pipes
    readers,         \* legacy: the two reader threads: "none", "running", "done"
    chan,            \* legacy: the mpsc channel, the Output values in flight
    output_lines,    \* legacy: Vec<String> of the lines received
    emitted          \* legacy: the lines the child has written to each stream, in order

vars ==
    << binary, load, commands, platformx, step, verbose, report, is_terminal,
       pc, commands_to_run, i, results, err, run_result, exit_code, out,
       events, calls, procs, now, timer, cmd_timer,
       spinner, pipes, readers, chan, output_lines, emitted >>

\* the state of the relay of src/main.rs
relay == << spinner, pipes, readers, chan, output_lines, emitted >>

inputs == << binary, load, commands, platformx, step, verbose, report, is_terminal >>

\* the streams of a child
Streams == {"stdout", "stderr"}

\* a line of user-visible output; fd is the child's stream a relayed line came
\* from ("tty": written by the child itself to the terminal it inherited)
OutLine(kind, cmd, n, fd) == [kind |-> kind, cmd |-> cmd, n |-> n, fd |-> fd]

Line(kind, cmd, n) == OutLine(kind, cmd, n, "")

\* the flags and the telemetry section exist in the current program only
Init ==
    /\ binary \in {"getset", "legacy"}
    /\ load \in {"ok", "read_err", "parse_err"}
    /\ commands \in CommandLists
    /\ platformx \in IF binary = "getset" THEN BOOLEAN ELSE {FALSE}
    /\ step \in IF binary = "getset" THEN StepPool ELSE {None}
    /\ verbose \in IF binary = "getset" THEN BOOLEAN ELSE {FALSE}
    /\ report \in IF binary = "getset" THEN BOOLEAN ELSE {FALSE}
    /\ is_terminal \in IF binary = "getset" THEN BOOLEAN ELSE {FALSE}
    /\ spinner = <<>>
    /\ pipes = [fd \in Streams |-> <<>>]
    /\ readers = [fd \in Streams |-> "none"]
    /\ chan = <<>>
    /\ output_lines = <<>>
    /\ emitted = [fd \in Streams |-> <<>>]
    /\ pc = "load"
    /\ commands_to_run = <<>>
    /\ i = 0
    /\ results = <<>>
    /\ err = ""
    /\ run_result = "pending"
    /\ exit_code = None
    /\ out = <<>>
    /\ events = <<>>
    /\ calls = <<>>
    /\ procs = <<>>
    /\ now = 0
    /\ timer = 0
    /\ cmd_timer = 0

\* ------------------------------------------------------------ small helpers
Last(s) == s[Len(s)]

SetLast(s, v) == [s EXCEPT ![Len(s)] = v]

\* the kinds of line that open and close one command's output
FinishKinds == {"finish_ok", "finish_fail"}

\* ------------------------------------------------- getset.rs: main, cli.rs: run
\* mutant of ReturnToMain: the error is printed and main returns
ReturnToMain_returns(result, o) ==
    /\ run_result' = result
    /\ out' = IF result # "Ok" THEN Append(o, Line("error", 0, 0)) ELSE o
    /\ exit_code' = Some(0)
    /\ pc' = "exited"

\* getset.rs:11-15: UpCommand::run returns to main, which prints an error and
\* exits with 1, or returns; o is what the run has printed
ReturnToMain(result, o) ==
    /\ run_result' = result
    /\ out' = IF result # "Ok" THEN Append(o, Line("error", 0, 0)) ELSE o
    /\ exit_code' = IF result # "Ok" THEN Some(1) ELSE Some(0)
    /\ pc' = "exited"

\* mutant of LoadConfig: the Result of Config::from_file is not looked at
LoadConfig_ignores_error ==
    /\ binary = "getset"
    /\ pc = "load"
    /\ pc' = IF platformx THEN "send_start" ELSE "filter"
    /\ timer' = now
    /\ UNCHANGED << inputs, relay, commands_to_run, i, results, err, events,
                    calls, procs, now, cmd_timer, run_result, out, exit_code >>

\* cli.rs:60-76: Config::from_file fails (`?`), or the timer starts
LoadConfig ==
    /\ binary = "getset"
    /\ pc = "load"
    /\ IF load = "ok"
         THEN /\ pc' = IF platformx THEN "send_start" ELSE "filter"
              /\ timer' = now
              /\ UNCHANGED << run_result, out, exit_code >>
         ELSE /\ ReturnToMain(IF load = "read_err" THEN "Error reading file"
                                                    ELSE "Error parsing TOML", out)
              /\ UNCHANGED timer
    /\ UNCHANGED << inputs, relay, commands_to_run, i, results, err, events,
                    calls, procs, now, cmd_timer >>

\* a PlatformX event: its name and metadata (platformx.rs:76-103), and
\* whether send_event returned Ok (platformx.rs:50-72)
Event(name, elapsed, msg, ok) ==
    [name |-> name, elapsed |-> elapsed, msg |-> msg, ok |-> ok]

\* mutant of SendStart: the Result of the send is propagated with `?`
SendStart_propagates(ok) ==
    /\ pc = "send_start"
    /\ events' = Append(events, Event("start", 0, "", ok))
    /\ now' = now + 1
    /\ IF ok
         THEN /\ pc' = "filter"
              /\ UNCHANGED << run_result, exit_code, out >>
         ELSE ReturnToMain("Failed to send PlatformX event", out)
    /\ UNCHANGED << inputs, relay, commands_to_run, i, results, err, calls,
                    procs, timer, cmd_timer >>

\* cli.rs:73-76: `let _ = client.send_start().await`; ok is the Result of the
\* send, which is dropped
SendStart(ok) ==
    /\ pc = "send_start"
    /\ events' = Append(events, Event("start", 0, "", ok))
    /\ now' = now + 1
    /\ pc' = "filter"
    /\ UNCHANGED << inputs, relay, commands_to_run, i, results, err, run_result,
                    exit_code, out, calls, procs, timer, cmd_timer >>

\* mutant of TitleMatches: the filter is not lower-cased
TitleMatches_filter_as_typed(title, step_filter) ==
    contains(to_lowercase(title), step_filter)

\* cli.rs:83-87: the closure of the filter
TitleMatches(title, step_filter) ==
    contains(to_lowercase(title), to_lowercase(step_filter))

\* mutant of Matches: a filter that matches nothing selects every entry
Matches_all_if_none(cmds, step_filter) ==
    LET keep(k) == TitleMatches(cmds[k].title, step_filter)
        all == [k \in 1..Len(cmds) |-> k]
    IN  IF SelectSeq(all, keep) = <<>> THEN all ELSE SelectSeq(all, keep)

\* cli.rs:80-88: config.commands.iter().filter(..).collect()
Matches(cmds, step_filter) ==
    LET keep(k) == TitleMatches(cmds[k].title, step_filter)
    IN  SelectSeq([k \in 1..Len(cmds) |-> k], keep)

\* mutant of ShouldList: the listing is printed for a single match too
ShouldList_from_one(matches) ==
    Len(matches) >= 1

\* cli.rs:98: the listing is printed for more than one match
ShouldList(matches) ==
    Len(matches) > 1

\* cli.rs:98-109: the listing of the matched steps
Listing(matches) ==
    <<Line("found", 0, Len(matches))>>
      \o [k \in 1..Len(matches) |-> Line("match", matches[k], k)]
      \o <<Line("blank", 0, 0)>>

\* cli.rs:79-114: commands_to_run
FilterCommands ==
    /\ pc = "filter"
    /\ IF IsSome(step)
         THEN LET matches == Matches(commands, Unwrap(step))
              IN  IF matches = <<>>
                    THEN /\ ReturnToMain("No steps found matching", out)
                         /\ UNCHANGED commands_to_run
                    ELSE /\ out' = IF ShouldList(matches) THEN out \o Listing(matches)
                                                       ELSE out
                         /\ commands_to_run' = matches
                         /\ pc' = "loop"
                         /\ UNCHANGED << run_result, exit_code >>
         ELSE /\ commands_to_run' = [k \in 1..Len(commands) |-> k]
              /\ pc' = "loop"
              /\ UNCHANGED << run_result, out, exit_code >>
    /\ UNCHANGED << inputs, relay, i, results, err, events, calls, procs, now,
                    timer, cmd_timer >>

\* mutant of should_use_pty: the pseudo-terminal is always tried
should_use_pty_always == TRUE

\* ------------------------------------------------------ runner.rs: run_command
\* runner.rs:7-10
should_use_pty == is_terminal

\* mutant of print_command_start: the title line is printed only if verbose
print_command_start_verbose_only(k, v) ==
    IF v THEN <<Line("start", k, 0), Line("cmdtext", k, 0)>> ELSE <<>>

\* mutant of print_command_start: the command text is printed without the
\* flag too
print_command_start_text_always(k, v) ==
    <<Line("start", k, 0), Line("cmdtext", k, 0)>>

\* runner.rs:13-23: the title line and, if verbose, the command text
print_command_start(k, v) ==
    <<Line("start", k, 0)>> \o (IF v THEN <<Line("cmdtext", k, 0)>> ELSE <<>>)

\* mutant of print_command_result: nothing is printed for a failure
print_command_result_ok_only(k, elapsed, ok) ==
    IF ok THEN <<Line("finish_ok", k, elapsed)>> ELSE <<>>

\* runner.rs:26-44: the finish line, with its glyph and the elapsed time
print_command_result(k, elapsed, ok) ==
    <<Line(IF ok THEN "finish_ok" ELSE "finish_fail", k, elapsed)>>

\* cli.rs:118-119 and runner.rs:95-98: the loop takes its next entry and calls
\* run_command, which prints the start marker and picks its mode
RunCommandStart ==
    /\ binary = "getset"
    /\ pc = "loop"
    /\ i < Len(commands_to_run)
    /\ calls' = Append(calls, [pos |-> i + 1, ret |-> "pending"])
    /\ out' = out \o print_command_start(commands_to_run[i + 1], verbose)
    /\ pc' = IF should_use_pty THEN "pty_open" ELSE "spawn"
    /\ UNCHANGED << inputs, relay, commands_to_run, i, results, err, run_result,
                    exit_code, events, procs, now, timer, cmd_timer >>

\* mutant of PtyFallback: only a failure to open the pseudo-terminal is
\* recovered from
PtyFallback_open_only(e) ==
    e = "Failed to open PTY"

\* mutant of PtyFallback: every error of run_with_pty is recovered from
PtyFallback_any_error(e) == TRUE

\* runner.rs:103: the errors of run_with_pty that run_command recovers from
PtyFallback(e) ==
    e \in {"Failed to open PTY", "Failed to spawn command"}

\* runner.rs:101-108: what run_command does with an Err of run_with_pty
AfterPtyErr(e) ==
    IF PtyFallback(e)
      THEN /\ pc' = "spawn"
           /\ UNCHANGED << err, calls >>
      ELSE /\ pc' = "cmd_err"
           /\ err' = e
           /\ calls' = SetLast(calls, [Last(calls) EXCEPT !.ret = "Err"])

\* a shell child: sh -c <command>, spawned now
Proc(pos, pty) ==
    [pos |-> pos, pty |-> pty, state |-> "running", code |-> 0, written |-> 0,
     written_err |-> 0, held |-> {}, spawned |-> now, waited |-> now]

\* mutant of PtyOpen: the timer starts once the pseudo-terminal is open
PtyOpen_then_timer(ok) ==
    /\ pc = "pty_open"
    /\ cmd_timer' = now + 1
    /\ now' = now + 1
    /\ IF ok
         THEN /\ pc' = "pty_spawn"
              /\ UNCHANGED << err, calls >>
         ELSE AfterPtyErr("Failed to open PTY")
    /\ UNCHANGED << inputs, relay, commands_to_run, i, results, run_result, exit_code,
                    out, events, procs, timer >>

\* runner.rs:48-50: the timer starts, then the pseudo-terminal is opened
PtyOpen(ok) ==
    /\ pc = "pty_open"
    /\ cmd_timer' = now
    /\ now' = now + 1
    /\ IF ok
         THEN /\ pc' = "pty_spawn"
              /\ UNCHANGED << err, calls >>
         ELSE AfterPtyErr("Failed to open PTY")
    /\ UNCHANGED << inputs, relay, commands_to_run, i, results, run_result, exit_code,
                    out, events, procs, timer >>

\* runner.rs:53-60: spawn on the pseudo-terminal
PtySpawn(ok) ==
    /\ pc = "pty_spawn"
    /\ IF ok
         THEN /\ procs' = Append(procs, Proc(i + 1, TRUE))
              /\ pc' = "pty_wait"
              /\ UNCHANGED << err, calls >>
         ELSE /\ AfterPtyErr("Failed to spawn command")
              /\ UNCHANGED procs
    /\ UNCHANGED << inputs, relay, commands_to_run, i, results, run_result, exit_code,
                    out, events, now, timer, cmd_timer >>

\* runner.rs:73-83: the timer starts, then the shell is spawned with the
\* parent's stdin, stdout and stderr; a failure is run_command's Err (`?`)
Spawn(ok) ==
    /\ binary = "getset"
    /\ pc = "spawn"
    /\ cmd_timer' = now
    /\ IF ok
         THEN /\ procs' = Append(procs, Proc(i + 1, FALSE))
              /\ pc' = "wait"
              /\ UNCHANGED << err, calls >>
         ELSE /\ pc' = "cmd_err"
              /\ err' = "Failed to spawn command"
              /\ calls' = SetLast(calls, [Last(calls) EXCEPT !.ret = "Err"])
              /\ UNCHANGED procs
    /\ UNCHANGED << inputs, relay, commands_to_run, i, results, run_result, exit_code,
                    out, events, now, timer >>

\* the number of lines the children have written to the terminal
TtyLines ==
    LET isLine(l) == l.kind = "line"
    IN  Len(SelectSeq(out, isLine))

\* the child writes a line to the terminal it inherited; the model follows a
\* child from its spawn to the return of the wait on it
ChildWrite ==
    /\ binary = "getset"
    /\ pc \in {"pty_wait", "wait"}
    /\ Last(procs).state = "running"
    /\ TtyLines < MaxLines
    /\ out' = Append(out, OutLine("line", commands_to_run[Last(procs).pos],
                                  Last(procs).written + 1, "tty"))
    /\ procs' = SetLast(procs, [Last(procs) EXCEPT !.written = @ + 1])
    /\ UNCHANGED << inputs, relay, pc, commands_to_run, i, results, err, run_result,
                    exit_code, events, calls, now, timer, cmd_timer >>

\* the child exits with a status
ChildExit(code) ==
    /\ binary = "getset"
    /\ pc \in {"pty_wait", "wait"}
    /\ Last(procs).state = "running"
    /\ procs' = SetLast(procs, [Last(procs) EXCEPT !.state = "exited", !.code = code])
    /\ now' = now + 1
    /\ UNCHANGED << inputs, relay, pc, commands_to_run, i, results, err, run_result,
                    exit_code, out, events, calls, timer, cmd_timer >>

\* mutant of wait_returns: the wait does not block
wait_returns_early(p) ==
    p.state \in {"running", "exited"}

\* Child::wait blocks until the child has exited
wait_returns(p) ==
    p.state = "exited"

\* Child::wait on an exited child reaps it: the process is gone, and with it
\* its progress; the wait is complete now
Reap(p) ==
    IF p.state = "exited"
      THEN [p EXCEPT !.state = "reaped", !.written = 0, !.written_err = 0,
                     !.waited = now]
      ELSE p

\* mutant of WaitErr: a failure of the wait on the pseudo-terminal child is
\* recovered from by the execution without a pseudo-terminal
WaitErr_falls_back ==
    /\ binary = "getset"
    /\ pc \in {"pty_wait", "wait"}
    /\ Last(procs).state = "running"
    /\ Last(procs).written = 0
    /\ IF pc = "pty_wait"
         THEN /\ pc' = "spawn"
              /\ UNCHANGED << err, calls >>
         ELSE /\ pc' = "cmd_err"
              /\ err' = "Failed to wait for command"
              /\ calls' = SetLast(calls, [Last(calls) EXCEPT !.ret = "Err"])
    /\ UNCHANGED << inputs, relay, commands_to_run, i, results, run_result, exit_code,
                    out, events, procs, now, timer, cmd_timer >>

\* runner.rs:63-65 and 86-88: child.wait() fails, which it does at the call,
\* without blocking for the child; run_with_pty's error is no fallback case
\* (runner.rs:107), run_without_pty's is returned by `?`
WaitErr ==
    /\ binary = "getset"
    /\ pc \in {"pty_wait", "wait"}
    /\ Last(procs).state = "running"
    /\ Last(procs).written = 0
    /\ IF pc = "pty_wait"
         THEN AfterPtyErr("Failed to wait for command")
         ELSE /\ pc' = "cmd_err"
              /\ err' = "Failed to wait for command"
              /\ calls' = SetLast(calls, [Last(calls) EXCEPT !.ret = "Err"])
    /\ UNCHANGED << inputs, relay, commands_to_run, i, results, run_result, exit_code,
                    out, events, procs, now, timer, cmd_timer >>

\* mutant of success: any exit status counts as success
success_any_status(p) ==
    p.code \in {0, 1}

\* runner.rs:68 and 91, main.rs:142: ExitStatus::success
success(p) ==
    p.code = 0

\* mutant of CommandResult: the loop records the command whatever it returned
CommandResult_records_failure ==
    /\ binary = "getset"
    /\ pc \in {"pty_wait", "wait"}
    /\ wait_returns(Last(procs))
    /\ procs' = SetLast(procs, Reap(Last(procs)))
    /\ LET p == Last(procs)
           elapsed == now - cmd_timer
           k == commands_to_run[i + 1]
       IN  /\ out' = out \o print_command_result(k, elapsed, success(p))
           /\ results' = Append(results,
                  [title |-> commands[k].title, duration |-> elapsed])
           /\ IF success(p)
                THEN /\ calls' = SetLast(calls, [Last(calls) EXCEPT !.ret = "Ok"])
                     /\ i' = i + 1
                     /\ pc' = "loop"
                     /\ UNCHANGED err
                ELSE /\ calls' = SetLast(calls, [Last(calls) EXCEPT !.ret = "Err"])
                     /\ err' = "Command exited with non-zero status"
                     /\ pc' = "cmd_err"
                     /\ UNCHANGED i
    /\ UNCHANGED << inputs, relay, commands_to_run, run_result, exit_code,
                    events, now, timer, cmd_timer >>

\* runner.rs:63-68 and 86-91, 114-120, cli.rs:119-125: child.wait() returns
\* the exit status, the elapsed time is taken and the finish line printed;
\* Ok(elapsed) is pushed onto results by the loop, Err goes to its Err arm
CommandResult ==
    /\ binary = "getset"
    /\ pc \in {"pty_wait", "wait"}
    /\ wait_returns(Last(procs))
    /\ procs' = SetLast(procs, Reap(Last(procs)))
    /\ LET p == Last(procs)
           elapsed == now - cmd_timer
           k == commands_to_run[i + 1]
       IN  /\ out' = out \o print_command_result(k, elapsed, success(p))
           /\ IF success(p)
                THEN /\ calls' = SetLast(calls, [Last(calls) EXCEPT !.ret = "Ok"])
                     /\ results' = Append(results,
                            [title |-> commands[k].title, duration |-> elapsed])
                     /\ i' = i + 1
                     /\ pc' = "loop"
                     /\ UNCHANGED err
                ELSE /\ calls' = SetLast(calls, [Last(calls) EXCEPT !.ret = "Err"])
                     /\ err' = "Command exited with non-zero status"
                     /\ pc' = "cmd_err"
                     /\ UNCHANGED << results, i >>
    /\ UNCHANGED << inputs, relay, commands_to_run, run_result, exit_code,
                    events, now, timer, cmd_timer >>

\* mutant of CommandFailed: the Err arm goes on with the next entry
CommandFailed_Continue(ok) ==
    /\ binary = "getset"
    /\ pc = "cmd_err"
    /\ ok
    /\ i' = i + 1
    /\ pc' = "loop"
    /\ UNCHANGED << inputs, relay, commands_to_run, results, err, run_result,
                    exit_code, out, events, calls, procs, now, timer, cmd_timer >>

\* mutant of CommandFailed: the Err arm returns without sending the error event
CommandFailed_no_event(ok) ==
    /\ binary = "getset"
    /\ pc = "cmd_err"
    /\ ok
    /\ ReturnToMain("A command failed", out)
    /\ UNCHANGED << inputs, relay, commands_to_run, i, results, err, calls,
                    procs, timer, cmd_timer, events, now >>

\* cli.rs:126-136 and getset.rs:11-15: the Err arm of the loop sends the error
\* event and returns the error to main
CommandFailed(ok) ==
    /\ binary = "getset"
    /\ pc = "cmd_err"
    /\ IF platformx
         THEN /\ events' = Append(events, Event("error", now - timer, err, ok))
              /\ now' = now + 1
         ELSE /\ ok
              /\ UNCHANGED << events, now >>
    /\ ReturnToMain("A command failed", out)
    /\ UNCHANGED << inputs, relay, commands_to_run, i, results, err, calls,
                    procs, timer, cmd_timer >>

\* mutant of print_report: the total line shows the last duration
print_report_total_is_last(res, total) ==
    <<Line("report", 0, 0)>>
      \o [k \in 1..Len(res) |-> Line("report_item", k, res[k].duration)]
      \o <<Line("report_total", 0, IF res = <<>> THEN total ELSE Last(res).duration)>>

\* cli.rs:160-178
print_report(res, total) ==
    <<Line("report", 0, 0)>>
      \o [k \in 1..Len(res) |-> Line("report_item", k, res[k].duration)]
      \o <<Line("report_total", 0, total)>>

\* mutant of Complete: the report is printed without the flag too
Complete_reports_always(ok) ==
    /\ binary = "getset"
    /\ pc = "loop"
    /\ i >= Len(commands_to_run)
    /\ LET elapsed == now - timer
       IN  /\ ReturnToMain("Ok",
                  out \o <<Line("all_set", 0, elapsed)>>
                      \o print_report(results, elapsed))
           /\ IF platformx
                THEN /\ events' = Append(events, Event("complete", elapsed, "", ok))
                     /\ now' = now + 1
                ELSE /\ ok
                     /\ UNCHANGED << events, now >>
    /\ UNCHANGED << inputs, relay, commands_to_run, i, results, err, calls,
                    procs, timer, cmd_timer >>

\* cli.rs:140-156 and getset.rs:11-15: the loop is over: the summary and the
\* report are printed, the complete event is sent and run returns Ok to main
Complete(ok) ==
    /\ binary = "getset"
    /\ pc = "loop"
    /\ i >= Len(commands_to_run)
    /\ LET elapsed == now - timer
       IN  /\ ReturnToMain("Ok",
                  out \o <<Line("all_set", 0, elapsed)>>
                      \o (IF report THEN print_report(results, elapsed) ELSE <<>>))
           /\ IF platformx
                THEN /\ events' = Append(events, Event("complete", elapsed, "", ok))
                     /\ now' = now + 1
                ELSE /\ ok
                     /\ UNCHANGED << events, now >>
    /\ UNCHANGED << inputs, relay, commands_to_run, i, results, err, calls,
                    procs, timer, cmd_timer >>

\* ------------------------------------------------------- main.rs (legacy)
\* main.rs:40-50: the file is read and parsed, or the error is printed and the
\* process exits with 1; the loop runs over config.commands itself
LegacyLoad ==
    /\ binary = "legacy"
    /\ pc = "load"
    /\ IF load = "ok"
         THEN /\ commands_to_run' = [k \in 1..Len(commands) |-> k]
              /\ pc' = "loop"
              /\ UNCHANGED << run_result, out, exit_code >>
         ELSE /\ run_result' = IF load = "read_err" THEN "Error reading file"
                                                     ELSE "Error parsing YAML"
              /\ out' = Append(out, Line("error", 0, 0))
              /\ exit_code' = Some(1)
              /\ pc' = "exited"
              /\ UNCHANGED commands_to_run
    /\ UNCHANGED << inputs, relay, i, results, err, events, calls, procs, now,
                    timer, cmd_timer >>

\* a line a child wrote: the stream it was written to, its number there and
\* whether its bytes are valid UTF-8
ChildLine(fd, n, utf8) == [src |-> fd, n |-> n, utf8 |-> utf8]

\* main.rs:31-34: enum Output
Output(tag, line) == [tag |-> tag, line |-> line]

\* main.rs:69 and 119-123: a message of the spinner, the title and a line
SpinnerMsg(k, n, fd) == OutLine("spinner", k, n, fd)

\* main.rs:53-54 and 61-109: the loop takes its next entry and calls
\* run_command: the spinner starts with the title, the shell is spawned with
\* stdout and stderr piped, the channel is made, the two reader threads are
\* started and the first sender is dropped; a spawn failure is returned (`?`)
LegacyRunCommandStart(ok) ==
    /\ binary = "legacy"
    /\ pc = "loop"
    /\ i < Len(commands_to_run)
    /\ spinner' = <<SpinnerMsg(commands_to_run[i + 1], 0, "")>>
    /\ output_lines' = <<>>
    /\ emitted' = [fd \in Streams |-> <<>>]
    /\ IF ok
         THEN /\ calls' = Append(calls, [pos |-> i + 1, ret |-> "pending"])
              /\ procs' = Append(procs, Proc(i + 1, FALSE))
              /\ pipes' = [fd \in Streams |-> <<>>]
              /\ readers' = [fd \in Streams |-> "running"]
              /\ chan' = <<>>
              /\ pc' = "recv"
              /\ UNCHANGED err
         ELSE /\ calls' = Append(calls, [pos |-> i + 1, ret |-> "Err"])
              /\ err' = "Failed to spawn command"
              /\ pc' = "legacy_err"
              /\ UNCHANGED << procs, pipes, readers, chan >>
    /\ UNCHANGED << inputs, commands_to_run, i, results, run_result, exit_code,
                    out, events, now, timer, cmd_timer >>

\* the pipe is full: a write to it blocks until a reader makes room
PipeFull(fd) ==
    Len(pipes[fd]) >= PipeCap

\* the child writes a line into one of its pipes, of bytes that are valid
\* UTF-8 or not; the write waits while the pipe is full
LegacyChildWrite(fd) ==
    /\ binary = "legacy"
    /\ pc \in {"recv", "legacy_wait"}
    /\ Last(procs).state = "running"
    /\ ~PipeFull(fd)
    /\ LET w == IF fd = "stdout" THEN Last(procs).written
                                 ELSE Last(procs).written_err
       IN  /\ Last(procs).written + Last(procs).written_err < MaxPipeLines
           /\ \E utf8 \in BOOLEAN :
                  /\ pipes' = [pipes EXCEPT ![fd] = Append(@, ChildLine(fd, w + 1, utf8))]
                  /\ emitted' = [emitted EXCEPT ![fd] = Append(@, ChildLine(fd, w + 1, utf8))]
    /\ procs' = SetLast(procs,
           IF fd = "stdout" THEN [Last(procs) EXCEPT !.written = @ + 1]
                            ELSE [Last(procs) EXCEPT !.written_err = @ + 1])
    /\ UNCHANGED << inputs, pc, commands_to_run, i, results, err, run_result,
                    exit_code, out, events, calls, now, timer, cmd_timer,
                    spinner, readers, chan, output_lines >>

\* the shell child exits, which closes its write ends of the pipes; a
\* background descendant it has started may hold the write ends of some of
\* them open
LegacyChildExit(code) ==
    /\ binary = "legacy"
    /\ pc \in {"recv", "legacy_wait"}
    /\ Last(procs).state = "running"
    /\ \E h \in SUBSET Streams :
           procs' = SetLast(procs, [Last(procs) EXCEPT !.state = "exited",
                                                       !.code = code, !.held = h])
    /\ UNCHANGED << inputs, relay, pc, commands_to_run, i, results, err,
                    run_result, exit_code, out, events, calls, now, timer,
                    cmd_timer >>

\* a descendant of the shell child closes the write end of a pipe it held
DescendantClose(fd) ==
    /\ binary = "legacy"
    /\ pc = "recv"
    /\ fd \in Last(procs).held
    /\ procs' = SetLast(procs, [Last(procs) EXCEPT !.held = @ \ {fd}])
    /\ UNCHANGED << inputs, relay, pc, commands_to_run, i, results, err,
                    run_result, exit_code, out, events, calls, now, timer,
                    cmd_timer >>

\* mutant of WriteEndsClosed: the pipe is at its end as soon as the shell
\* child has exited
WriteEndsClosed_at_exit(fd) ==
    Last(procs).state # "running"

\* every write end of the pipe is closed: a read of the empty pipe returns
\* end-of-stream
WriteEndsClosed(fd) ==
    /\ Last(procs).state # "running"
    /\ fd \notin Last(procs).held

\* mutant of ReaderRuns: one thread reads stdout to its end and then stderr
ReaderRuns_one_after_other(fd) ==
    /\ readers[fd] = "running"
    /\ fd = "stderr" => readers["stdout"] = "done"

\* main.rs:87 and 99: each stream has a thread of its own, which runs from
\* its spawn until its loop over reader.lines() ends
ReaderRuns(fd) ==
    readers[fd] = "running"

\* mutant of TagOf: every line is sent as a line of stdout
TagOf_always_stdout(fd) == "Stdout"

\* main.rs:91 and 103: the variant a reader thread wraps its lines in
TagOf(fd) == IF fd = "stdout" THEN "Stdout" ELSE "Stderr"

\* mutant of Enqueue: the newest message goes to the front of the queue
Enqueue_in_front(q, m) ==
    <<m>> \o q

\* main.rs:82, 91 and 103: Sender::send puts a message at the back of the
\* queue of the channel
Enqueue(q, m) ==
    Append(q, m)

\* main.rs:87-94 and 99-106: a reader thread reads a line and sends it
ReaderSend(fd) ==
    /\ binary = "legacy"
    /\ ReaderRuns(fd)
    /\ pipes[fd] # <<>>
    /\ Head(pipes[fd]).utf8
    /\ chan' = Enqueue(chan, Output(TagOf(fd), Head(pipes[fd])))
    /\ pipes' = [pipes EXCEPT ![fd] = Tail(@)]
    /\ UNCHANGED << inputs, pc, commands_to_run, i, results, err, run_result,
                    exit_code, out, events, calls, procs, now, timer,
                    cmd_timer, spinner, readers, output_lines, emitted >>

\* mutant of ReaderSkip: the reader thread ends at the first line it cannot
\* read
ReaderSkip_stops(fd) ==
    /\ binary = "legacy"
    /\ ReaderRuns(fd)
    /\ pipes[fd] # <<>>
    /\ ~Head(pipes[fd]).utf8
    /\ readers' = [readers EXCEPT ![fd] = "done"]
    /\ UNCHANGED << inputs, pc, commands_to_run, i, results, err, run_result,
                    exit_code, out, events, calls, procs, now, timer,
                    cmd_timer, spinner, pipes, chan, output_lines, emitted >>

\* main.rs:89-90 and 101-102: reader.lines() yields Err for a line that is not
\* valid UTF-8; `if let Ok(line)` does not match, nothing is sent and the loop
\* goes on with the next line
ReaderSkip(fd) ==
    /\ binary = "legacy"
    /\ ReaderRuns(fd)
    /\ pipes[fd] # <<>>
    /\ ~Head(pipes[fd]).utf8
    /\ pipes' = [pipes EXCEPT ![fd] = Tail(@)]
    /\ UNCHANGED << inputs, pc, commands_to_run, i, results, err, run_result,
                    exit_code, out, events, calls, procs, now, timer,
                    cmd_timer, spinner, readers, chan, output_lines, emitted >>

\* main.rs:89 and 101: reader.lines() ends at end-of-stream; the thread ends
\* and its sender is dropped
ReaderEof(fd) ==
    /\ binary = "legacy"
    /\ ReaderRuns(fd)
    /\ pipes[fd] = <<>>
    /\ WriteEndsClosed(fd)
    /\ readers' = [readers EXCEPT ![fd] = "done"]
    /\ UNCHANGED << inputs, pc, commands_to_run, i, results, err, run_result,
                    exit_code, out, events, calls, procs, now, timer,
                    cmd_timer, spinner, pipes, chan, output_lines, emitted >>

\* mutant of Disconnected: the end of one reader thread closes the channel
Disconnected_by_one ==
    \E fd \in Streams : readers[fd] = "done"

\* main.rs:108-109: the channel is closed once every sender is dropped: tx by
\* run_command itself, the clones by the ends of the reader threads
Disconnected ==
    \A fd \in Streams : readers[fd] = "done"

\* mutant of Recv: the loop also prints the line it receives
Recv_prints ==
    /\ binary = "legacy"
    /\ pc = "recv"
    /\ chan # <<>>
    /\ LET line == Head(chan).line
       IN  /\ spinner' = Append(spinner,
                  SpinnerMsg(commands_to_run[i + 1], line.n, line.src))
           /\ output_lines' = Append(output_lines, line)
           /\ out' = Append(out, OutLine("line", commands_to_run[i + 1], line.n, line.src))
    /\ chan' = Tail(chan)
    /\ UNCHANGED << inputs, pc, commands_to_run, i, results, err, run_result,
                    exit_code, events, calls, procs, now, timer,
                    cmd_timer, pipes, readers, emitted >>

\* main.rs:115-136: the loop receives a line, shows it on the spinner and
\* keeps it
Recv ==
    /\ binary = "legacy"
    /\ pc = "recv"
    /\ chan # <<>>
    /\ LET line == Head(chan).line
       IN  /\ spinner' = Append(spinner,
                  SpinnerMsg(commands_to_run[i + 1], line.n, line.src))
           /\ output_lines' = Append(output_lines, line)
    /\ chan' = Tail(chan)
    /\ UNCHANGED << inputs, pc, commands_to_run, i, results, err, run_result,
                    exit_code, out, events, calls, procs, now, timer,
                    cmd_timer, pipes, readers, emitted >>

\* mutant of RecvEnd: the loop ends when the child has exited
RecvEnd_at_exit ==
    /\ binary = "legacy"
    /\ pc = "recv"
    /\ Last(procs).state # "running"
    /\ pc' = "legacy_wait"
    /\ UNCHANGED << inputs, relay, commands_to_run, i, results, err,
                    run_result, exit_code, out, events, calls, procs, now,
                    timer, cmd_timer >>

\* main.rs:115: `for output in rx` ends when the channel is empty and closed
RecvEnd ==
    /\ binary = "legacy"
    /\ pc = "recv"
    /\ chan = <<>>
    /\ Disconnected
    /\ pc' = "legacy_wait"
    /\ UNCHANGED << inputs, relay, commands_to_run, i, results, err,
                    run_result, exit_code, out, events, calls, procs, now,
                    timer, cmd_timer >>

\* mutant of LegacyWait: child.wait() is called without the end of the loop
\* over the channel
LegacyWait_during_loop(ok) ==
    /\ binary = "legacy"
    /\ pc \in {"recv", "legacy_wait"}
    /\ IF ok
         THEN /\ wait_returns(Last(procs))
              /\ procs' = SetLast(procs, Reap(Last(procs)))
              /\ pc' = "legacy_result"
              /\ UNCHANGED << err, calls >>
         ELSE /\ err' = "Failed to wait for command"
              /\ calls' = SetLast(calls, [Last(calls) EXCEPT !.ret = "Err"])
              /\ pc' = "legacy_err"
              /\ UNCHANGED procs
    /\ UNCHANGED << inputs, relay, commands_to_run, i, results, run_result,
                    exit_code, out, events, now, timer, cmd_timer >>

\* main.rs:139-140: child.wait(); a failure is returned (`?`)
LegacyWait(ok) ==
    /\ binary = "legacy"
    /\ pc = "legacy_wait"
    /\ IF ok
         THEN /\ wait_returns(Last(procs))
              /\ procs' = SetLast(procs, Reap(Last(procs)))
              /\ pc' = "legacy_result"
              /\ UNCHANGED << err, calls >>
         ELSE /\ err' = "Failed to wait for command"
              /\ calls' = SetLast(calls, [Last(calls) EXCEPT !.ret = "Err"])
              /\ pc' = "legacy_err"
              /\ UNCHANGED procs
    /\ UNCHANGED << inputs, relay, commands_to_run, i, results, run_result,
                    exit_code, out, events, now, timer, cmd_timer >>

\* the stream of the parent a line of `out` was written to: a line of a child
\* of runner.rs went to the terminal the child inherited (runner.rs:79-81,
\* Stdio::inherit); main.rs:154 prints with println!, to standard output
PrintedTo(l) ==
    IF l.fd = "tty" THEN "tty" ELSE "stdout"

\* main.rs:152-155: the lines kept are printed
PrintOutputLines(k, lines) ==
    [j \in 1..Len(lines) |-> OutLine("line", k, lines[j].n, lines[j].src)]

\* main.rs:142-158: the spinner is cleared and the title printed with its
\* mark; on failure the lines kept are printed after it and Err is returned
LegacyResult ==
    /\ binary = "legacy"
    /\ pc = "legacy_result"
    /\ spinner' = <<>>
    /\ LET k == commands_to_run[i + 1]
       IN  IF success(Last(procs))
             THEN /\ out' = Append(out, Line("finish_ok", k, 0))
                  /\ calls' = SetLast(calls, [Last(calls) EXCEPT !.ret = "Ok"])
                  /\ i' = i + 1
                  /\ pc' = "loop"
                  /\ UNCHANGED err
             ELSE /\ out' = Append(out, Line("finish_fail", k, 0))
                              \o PrintOutputLines(k, output_lines)
                  /\ calls' = SetLast(calls, [Last(calls) EXCEPT !.ret = "Err"])
                  /\ err' = "Command exited with status"
                  /\ pc' = "legacy_err"
                  /\ UNCHANGED i
    /\ UNCHANGED << inputs, commands_to_run, results, run_result, exit_code,
                    events, procs, now, timer, cmd_timer, pipes, readers,
                    chan, output_lines, emitted >>

\* main.rs:54-57: run_command returned Err: the error is printed and the
\* process exits with 1
LegacyCommandFailed ==
    /\ binary = "legacy"
    /\ pc = "legacy_err"
    /\ run_result' = "Command failed"
    /\ out' = Append(out, Line("error", 0, 0))
    /\ exit_code' = Some(1)
    /\ pc' = "exited"
    /\ UNCHANGED << inputs, relay, commands_to_run, i, results, err, events,
                    calls, procs, now, timer, cmd_timer >>

\* main.rs:58-59: the loop is over and main returns
LegacyDone ==
    /\ binary = "legacy"
    /\ pc = "loop"
    /\ i >= Len(commands_to_run)
    /\ run_result' = "Ok"
    /\ exit_code' = Some(0)
    /\ pc' = "exited"
    /\ UNCHANGED << inputs, relay, commands_to_run, i, results, err, out,
                    events, calls, procs, now, timer, cmd_timer >>

\* mutant of ErrArgs: the error names the entry and its exit status
ErrArgs_title_and_status ==
    << [what |-> "title", value |-> commands[commands_to_run[Last(calls).pos]].title],
       [what |-> "status", value |-> Last(procs).code] >>

\* runner.rs:119 and main.rs:157: what the Err of a command that exited with a
\* failure status puts into its text: nothing in runner.rs, whose text is a
\* literal, and the exit status in main.rs
ErrArgs ==
    IF err = "Command exited with status"
      THEN << [what |-> "status", value |-> Last(procs).code] >>
      ELSE << >>

Next ==
    \/ LoadConfig
    \/ \E ok \in BOOLEAN : SendStart(ok)
    \/ FilterCommands
    \/ RunCommandStart
    \/ \E ok \in BOOLEAN : PtyOpen(ok)
    \/ \E ok \in BOOLEAN : PtySpawn(ok)
    \/ \E ok \in BOOLEAN : Spawn(ok)
    \/ ChildWrite
    \/ \E code \in {0, 1} : ChildExit(code)
    \/ WaitErr
    \/ CommandResult
    \/ \E ok \in BOOLEAN : CommandFailed(ok)
    \/ \E ok \in BOOLEAN : Complete(ok)
    \/ LegacyLoad
    \/ \E ok \in BOOLEAN : LegacyRunCommandStart(ok)
    \/ \E fd \in Streams : LegacyChildWrite(fd)
    \/ \E code \in {0, 1} : LegacyChildExit(code)
    \/ \E fd \in Streams : DescendantClose(fd)
    \/ \E fd \in Streams : ReaderSend(fd)
    \/ \E fd \in Streams : ReaderSkip(fd)
    \/ \E fd \in Streams : ReaderEof(fd)
    \/ Recv
    \/ RecvEnd
    \/ \E ok \in BOOLEAN : LegacyWait(ok)
    \/ LegacyResult
    \/ LegacyCommandFailed
    \/ LegacyDone

Spec == Init /\ [][Next]_vars

\* ------------------------------------------------- the legacy runner alone
\* a run of src/main.rs
RelayInit ==
    /\ binary = "legacy"
    /\ Init

RelayNext ==
    \/ LegacyLoad
    \/ \E ok \in BOOLEAN : LegacyRunCommandStart(ok)
    \/ \E fd \in Streams : LegacyChildWrite(fd)
    \/ \E code \in {0, 1} : LegacyChildExit(code)
    \/ \E fd \in Streams : DescendantClose(fd)
    \/ \E fd \in Streams : ReaderSend(fd)
    \/ \E fd \in Streams : ReaderSkip(fd)
    \/ \E fd \in Streams : ReaderEof(fd)
    \/ Recv
    \/ RecvEnd
    \/ \E ok \in BOOLEAN : LegacyWait(ok)
    \/ LegacyResult
    \/ LegacyCommandFailed
    \/ LegacyDone

\* the two reader threads and the main thread are threads of the operating
\* system: each takes its next step if it can take it for ever. Nothing is
\* assumed of the child and of its descendants.
RelayFairness ==
    /\ \A fd \in Streams :
           /\ WF_vars(ReaderSend(fd))
           /\ WF_vars(ReaderSkip(fd))
           /\ WF_vars(ReaderEof(fd))
    /\ WF_vars(Recv)
    /\ WF_vars(RecvEnd)

RelaySpec == RelayInit /\ [][RelayNext]_vars /\ RelayFairness

\* ================================================================== claims
\* ----------------------------------------------------- what the claims use
\* the positions of the lines of some kinds that `out` holds for entry k
LinesOf(kinds, k) ==
    { x \in DOMAIN out : out[x].kind \in kinds /\ out[x].cmd = k }

\* the number of start markers printed
StartMarkers ==
    Cardinality({ x \in DOMAIN out : out[x].kind = "start" })

\* the entries the start markers in `out` name, in the order printed
Started ==
    LET isStart(l) == l.kind = "start"
        marks == SelectSeq(out, isStart)
    IN  [x \in 1..Len(marks) |-> marks[x].cmd]

\* lower case, letter by letter, as a table
LowerTable ==
    [c \in {"A", "B", "C", "a", "b", "c"} |->
        IF c \in {"A", "a"} THEN "a" ELSE IF c \in {"B", "b"} THEN "b" ELSE "c"]

\* the lower-cased title holds the lower-cased filter as a substring: the
\* title splits into a part before, the filter, and a part after
TitleHolds(title, f) ==
    \E a \in 0..Len(title) :
        /\ a + Len(f) <= Len(title)
        /\ \A j \in 1..Len(f) : LowerTable[title[a + j]] = LowerTable[f[j]]

\* the entries of config.commands whose title holds the filter
Matching ==
    { k \in DOMAIN commands : TitleHolds(commands[k].title, Unwrap(step)) }

\* a sequence of indices in increasing order
Increasing(s) ==
    \A a, b \in DOMAIN s : a < b => s[a] < s[b]

\* the set of the elements of a sequence
Range(s) == { s[x] : x \in DOMAIN s }

\* UpCommand::run has computed commands_to_run
Filtered ==
    pc \notin {"load", "send_start", "filter"}

\* a run of the current program with a --step filter on a loaded file
StepRun ==
    binary = "getset" /\ load = "ok" /\ IsSome(step)

\* ----------------------------------------------------------------------- C1
\* C1: fail-fast. Once run_command has returned an error for an entry, it is
\* never invoked for a later entry: a call that returned Err is the last call
\* of the run, in UpCommand::run and in the loop of main.rs alike.
C1_FailFast ==
    \A a \in DOMAIN calls :
        calls[a].ret = "Err" =>
            /\ a = Len(calls)
            /\ \A b \in DOMAIN calls : calls[b].pos <= calls[a].pos

\* the first of two entries failed and the process is over
C1_Witness ==
    /\ pc = "exited"
    /\ Len(commands_to_run) = 2
    /\ Len(calls) = 1
    /\ calls[1].ret = "Err"

\* ----------------------------------------------------------------------- C2
\* C2: the commands run one at a time and in list order. The entries
\* attempted are a prefix of the filtered list, which keeps the order of the
\* file; an entry is started only when the child of every earlier entry has
\* been waited on, so at most one shell child is alive at a time.
C2_OneAtATime ==
    /\ Increasing(commands_to_run)
    /\ Len(calls) <= Len(commands_to_run)
    /\ \A a \in DOMAIN calls : calls[a].pos = a
    /\ binary = "getset" => Started = SubSeq(commands_to_run, 1, Len(calls))
    /\ \A p \in DOMAIN procs :
           procs[p].pos < Len(calls) => procs[p].state = "reaped"
    /\ Cardinality({ p \in DOMAIN procs : procs[p].state # "reaped" }) <= 1

\* the child of the second entry runs, the child of the first is reaped
C2_Witness ==
    /\ Len(procs) = 2
    /\ procs[1].state = "reaped"
    /\ procs[2].state = "running"
    /\ procs[2].pos = 2

\* ----------------------------------------------------------------------- C3
\* C3: the number of start markers printed equals the number of commands
\* attempted; the attempted count never exceeds the length of the filtered
\* list; and at the end of a run it equals that length unless a command
\* strictly before the last entry failed.
C3_StartMarkersCountAttempts ==
    /\ binary = "getset" => StartMarkers = Len(calls)
    /\ Len(calls) <= Len(commands_to_run)
    /\ pc = "exited" =>
           \/ Len(calls) = Len(commands_to_run)
           \/ \E a \in DOMAIN calls :
                  a < Len(commands_to_run) /\ calls[a].ret = "Err"

\* the last of two entries failed: both were attempted, two markers printed
C3_Witness ==
    /\ binary = "getset"
    /\ pc = "exited"
    /\ Len(commands_to_run) = 2
    /\ Len(calls) = 2
    /\ calls[2].ret = "Err"
    /\ StartMarkers = 2

\* ----------------------------------------------------------------------- C4
\* C4: with a --step filter that no title matches, UpCommand::run returns the
\* "No steps found matching" error before run_command is invoked for any
\* entry: no command is attempted, no start marker is printed and no child is
\* spawned, also when the unfiltered list is not empty.
C4_NoMatchFailsBeforeAnyCommand ==
    (StepRun /\ Matching = {}) =>
        /\ calls = <<>>
        /\ procs = <<>>
        /\ StartMarkers = 0
        /\ pc \in {"load", "send_start", "filter", "exited"}
        /\ pc = "exited" => run_result = "No steps found matching"

\* the filter matched none of the entries of a list that has some
C4_Witness ==
    /\ StepRun
    /\ Matching = {}
    /\ commands # <<>>
    /\ pc = "exited"

\* ----------------------------------------------------------------------- C5
\* C5: with a --step filter F the commands selected to run are exactly the
\* entries whose lower-cased title holds lower-cased F as a substring, in the
\* order of the file: none that matches is left out, none that does not match
\* is ever started, and a run that succeeds has started every one of them.
C5_FilterSelectsMatching ==
    StepRun =>
        /\ Filtered => /\ Range(commands_to_run) = Matching
                       /\ Increasing(commands_to_run)
        /\ Range(Started) \subseteq Matching
        /\ run_result = "Ok" => Range(Started) = Matching

\* the filter "BA" selected the entry titled "Ba" and not the one titled "ab"
C5_Witness ==
    /\ StepRun
    /\ step = Some(<<"B", "A">>)
    /\ Len(commands) = 2
    /\ commands[1].title = TitleAb
    /\ commands[2].title = TitleBa
    /\ run_result = "Ok"
    /\ Started = <<2>>

\* ----------------------------------------------------------------------- C6
\* the listing of the matched entries, as the claim describes it
ListingOf(ms) ==
    <<Line("found", 0, Cardinality(ms))>>
      \o [x \in 1..Cardinality(ms) |->
            Line("match", CHOOSE k \in ms : Cardinality({ m \in ms : m < k }) = x - 1, x)]
      \o <<Line("blank", 0, 0)>>

\* the positions of the lines of the listing in `out`
ListingLines ==
    { x \in DOMAIN out : out[x].kind \in {"found", "match"} }

\* C6: when the filter matches more than one entry, the "Found N steps
\* matching" listing of all N matched titles is printed before the first start
\* marker and the run goes on with all N (a run that succeeds has run all N);
\* when it matches exactly one entry no listing is printed and only that entry
\* is run.
C6_ListingOnlyForSeveralMatches ==
    (StepRun /\ Filtered) =>
        LET n == Cardinality(Matching)
        IN  /\ n > 1 =>
                  /\ Len(out) >= n + 2
                  /\ SubSeq(out, 1, n + 2) = ListingOf(Matching)
                  /\ ListingLines = 1..(n + 1)
                  /\ Len(commands_to_run) = n
                  /\ run_result = "Ok" => Len(calls) = n
            /\ n = 1 =>
                  /\ ListingLines = {}
                  /\ Range(commands_to_run) = Matching
                  /\ Len(commands_to_run) = 1
                  /\ Range(Started) \subseteq Matching

\* two entries matched: the listing was printed and both were run
C6_Witness ==
    /\ StepRun
    /\ Cardinality(Matching) = 2
    /\ run_result = "Ok"
    /\ pc = "exited"
    /\ Started = <<1, 2>>
    /\ out[1].kind = "found"

\* ----------------------------------------------------------------------- C7
\* C7: the exit code of a run is 0 if and only if the file loaded, the filter
\* (if any) matched at least one entry and every command attempted succeeded;
\* in every other case it is not 0.
C7_ExitCode ==
    pc = "exited" =>
        /\ IsSome(exit_code)
        /\ Unwrap(exit_code) = 0 <=>
               /\ load = "ok"
               /\ IsSome(step) => Matching # {}
               /\ \A a \in DOMAIN calls : calls[a].ret = "Ok"

\* the second command failed after the first succeeded: the exit code is 1
C7_Witness ==
    /\ binary = "getset"
    /\ pc = "exited"
    /\ exit_code = Some(1)
    /\ Len(calls) = 2
    /\ calls[1].ret = "Ok"
    /\ calls[2].ret = "Err"

\* ----------------------------------------------------------------------- C8
\* the children spawned for the entry at position a of the list
Children(a) ==
    { p \in DOMAIN procs : procs[p].pos = a }

\* those of them that were waited on
WaitedChild(a) ==
    { p \in Children(a) : procs[p].state = "reaped" }

\* C8: run_command returns Ok(elapsed), with elapsed >= 0, if and only if the
\* shell child was spawned, waited on and exited with code 0. A non-zero exit
\* code, a failure to spawn (after any fallback from the pseudo-terminal) and
\* a failure to wait each yield Err, and the error of a non-zero exit is
\* "Command exited with non-zero status".
C8_OutcomeClassification ==
    binary = "getset" =>
        /\ \A a \in DOMAIN calls :
               /\ calls[a].ret = "Ok" =>
                      /\ \E p \in WaitedChild(a) : procs[p].code = 0
                      /\ a \in DOMAIN results
                      /\ results[a].duration >= 0
               /\ calls[a].ret = "Err" =>
                      /\ \A p \in WaitedChild(a) : procs[p].code # 0
                      /\ WaitedChild(a) # {} <=>
                             err = "Command exited with non-zero status"
                      /\ Children(a) = {} <=> err = "Failed to spawn command"
                      /\ (Children(a) # {} /\ WaitedChild(a) = {}) <=>
                             err = "Failed to wait for command"
               /\ calls[a].ret = "pending" => WaitedChild(a) = {}
        /\ Len(results) = Cardinality({ a \in DOMAIN calls : calls[a].ret = "Ok" })

\* a child that was waited on exited with code 1: Err, "non-zero status"
C8_Witness ==
    /\ binary = "getset"
    /\ calls # <<>>
    /\ Last(calls).ret = "Err"
    /\ err = "Command exited with non-zero status"
    /\ \E p \in WaitedChild(Len(calls)) : procs[p].code = 1

\* ----------------------------------------------------------------------- C9
\* the lines of command output printed, in the order printed
PrintedLines ==
    LET isLine(l) == l.kind = "line"
    IN  SelectSeq(out, isLine)

\* the start marker comes before any output of the command: in the current
\* runner the title line is printed before any line of the child; in the
\* legacy runner the spinner shows the title first and the lines received
\* after it, in the order received
StartBeforeOutput ==
    /\ binary = "getset" =>
           \A x \in DOMAIN out :
               out[x].kind = "line" =>
                   \E st \in LinesOf({"start"}, out[x].cmd) : st < x
    /\ binary = "legacy" =>
           /\ (output_lines # <<>> /\ pc \in {"recv", "legacy_wait", "legacy_result"})
                  => spinner # <<>>
           /\ spinner # <<>> =>
                  /\ spinner[1] = SpinnerMsg(commands_to_run[Last(calls).pos], 0, "")
                  /\ Len(spinner) = Len(output_lines) + 1
                  /\ \A j \in DOMAIN output_lines :
                         /\ spinner[j + 1].n = output_lines[j].n
                         /\ spinner[j + 1].fd = output_lines[j].src

\* no line of a command is printed after the finish marker of that command
OutputBeforeFinish ==
    \A x, y \in DOMAIN out :
        (/\ out[x].kind = "line"
         /\ out[y].kind \in FinishKinds
         /\ out[x].cmd = out[y].cmd) => x < y

\* the legacy runner prints its finish marker only when nothing is left in the
\* pipes or in the channel: every line was received, and shown, before it
LegacyDrainedBeforeFinish ==
    (/\ binary = "legacy"
     /\ calls # <<>>
     /\ \/ pc \in {"legacy_wait", "legacy_result"}
        \/ LinesOf(FinishKinds, commands_to_run[Last(calls).pos]) # {})
    => /\ chan = <<>>
       /\ \A fd \in Streams : pipes[fd] = <<>>
       /\ Last(procs).state # "running"

\* C9 as claimed: for every command invocation, of the current runner and of
\* the legacy runner alike, the start marker comes before any of the command's
\* output and every line of its output reaches the user before the finish
\* marker, also when the command fails.
C9_AsClaimed ==
    /\ StartBeforeOutput
    /\ OutputBeforeFinish
    /\ LegacyDrainedBeforeFinish

\* C9 as amended: the ordering holds for the current runner. In the legacy
\* runner the spinner shows the title before any line, and every line is
\* received and shown on the spinner before the finish marker; but the lines
\* are printed only when the command fails, and then after the failure marker.
C9_Amended ==
    /\ StartBeforeOutput
    /\ binary = "getset" => OutputBeforeFinish
    /\ LegacyDrainedBeforeFinish
    /\ binary = "legacy" =>
           /\ \A x \in DOMAIN out :
                  out[x].kind = "line" =>
                      \E y \in LinesOf({"finish_fail"}, out[x].cmd) : y < x
           /\ PrintedLines # <<>> =>
                  PrintedLines =
                      PrintOutputLines(commands_to_run[Last(calls).pos], output_lines)
           /\ (pc = "legacy_err" /\ err = "Command exited with status") =>
                  Len(PrintedLines) = Len(output_lines)

\* a legacy command failed and its line is printed after the failure marker
C9_Witness ==
    /\ binary = "legacy"
    /\ pc = "exited"
    /\ \E x, y \in DOMAIN out :
           /\ out[x].kind = "finish_fail"
           /\ out[y].kind = "line"
           /\ out[y].cmd = out[x].cmd
           /\ x < y

\* ---------------------------------------------------------------------- C10
\* C10 as claimed: every invocation of run_command that has returned wrote
\* exactly one start line and exactly one finish line, whatever the outcome.
C10_AsClaimed ==
    binary = "getset" =>
        \A a \in DOMAIN calls :
            calls[a].ret # "pending" =>
                /\ Cardinality(LinesOf({"start"}, commands_to_run[a])) = 1
                /\ Cardinality(LinesOf(FinishKinds, commands_to_run[a])) = 1

\* C10 as amended: every invocation of run_command writes exactly one start
\* line; it writes exactly one finish line when the child was waited on (it
\* exited with 0 or with another status) and none when the spawn failed in
\* non-PTY mode or the wait failed.
C10_Amended ==
    binary = "getset" =>
        \A a \in DOMAIN calls :
            LET k == commands_to_run[a]
            IN  /\ Cardinality(LinesOf({"start"}, k)) = 1
                /\ calls[a].ret = "Ok" =>
                       /\ Cardinality(LinesOf({"finish_ok"}, k)) = 1
                       /\ LinesOf({"finish_fail"}, k) = {}
                /\ calls[a].ret = "Err" =>
                       /\ LinesOf({"finish_ok"}, k) = {}
                       /\ Cardinality(LinesOf({"finish_fail"}, k)) =
                              IF err = "Command exited with non-zero status"
                                THEN 1 ELSE 0
                /\ calls[a].ret = "pending" => LinesOf(FinishKinds, k) = {}

\* the spawn failed after the fallback from the pseudo-terminal: a start line
\* and no finish line
C10_Witness ==
    /\ binary = "getset"
    /\ is_terminal
    /\ pc = "exited"
    /\ calls # <<>>
    /\ Last(calls).ret = "Err"
    /\ err = "Failed to spawn command"
    /\ Cardinality(LinesOf({"start"}, commands_to_run[Len(calls)])) = 1
    /\ LinesOf(FinishKinds, commands_to_run[Len(calls)]) = {}

\* ---------------------------------------------------------------------- C11
\* run_with_pty fails to open the pseudo-terminal or to spawn on it: the step
\* returns nothing to the loop, shows nothing and leaves no child behind; the
\* command goes to run_without_pty
C11_FallbackStep ==
    (/\ is_terminal
     /\ pc \in {"pty_open", "pty_spawn"}
     /\ pc' \notin {"pty_open", "pty_spawn", "pty_wait"})
    => /\ pc' = "spawn"
       /\ calls' = calls
       /\ err' = err
       /\ out' = out
       /\ procs' = procs

\* the invocations in PTY mode that got no child on a pseudo-terminal have the
\* result of their run_without_pty: Ok and a success line for a child that
\* exited with 0, and no other error than those of run_without_pty
C11_FallbackResult ==
    (binary = "getset" /\ is_terminal) =>
        /\ err # "Failed to open PTY"
        /\ \A a \in DOMAIN calls :
               /\ Cardinality(Children(a)) <= 1
               /\ (calls[a].ret # "pending" /\ \A p \in Children(a) : ~procs[p].pty) =>
                      LET k == commands_to_run[a]
                          waited == { p \in WaitedChild(a) : ~procs[p].pty }
                      IN  /\ calls[a].ret = "Ok" <=>
                                 \E p \in waited : procs[p].code = 0
                          /\ LinesOf({"finish_ok"}, k) # {} <=>
                                 \E p \in waited : procs[p].code = 0
                          /\ LinesOf({"finish_fail"}, k) # {} <=>
                                 \E p \in waited : procs[p].code # 0
                          /\ (calls[a].ret = "Err" /\ Children(a) = {}) =>
                                 err = "Failed to spawn command"

\* C11: silent fallback. Whenever PTY mode is chosen and opening the
\* pseudo-terminal or spawning on it fails, run_command runs the command from
\* scratch with run_without_pty and its result (Ok or Err, and the finish
\* line) is that of the non-PTY execution alone; the error of the PTY step is
\* never returned to the loop and never shown.
C11_SilentPtyFallback ==
    [] C11_FallbackResult /\ [][C11_FallbackStep]_vars

\* on a terminal, a command succeeded in a child that is not on a
\* pseudo-terminal: the fallback ran it
C11_Witness ==
    /\ binary = "getset"
    /\ is_terminal
    /\ calls # <<>>
    /\ Last(calls).ret = "Ok"
    /\ Children(Len(calls)) # {}
    /\ \A p \in Children(Len(calls)) : ~procs[p].pty

\* ---------------------------------------------------------------------- C12
\* what UpCommand::run returns, told from the file, the filter and what the
\* commands did, and from nothing the telemetry did
ExpectedResult ==
    IF load = "read_err" THEN "Error reading file"
    ELSE IF load = "parse_err" THEN "Error parsing TOML"
    ELSE IF IsSome(step) /\ Matching = {} THEN "No steps found matching"
    ELSE IF \E a \in DOMAIN calls : calls[a].ret = "Err" THEN "A command failed"
    ELSE "Ok"

\* C12: telemetry is best-effort. Whatever send_start, send_error and
\* send_complete return, and whether a client is configured or not, the
\* commands attempted and their order, the result of UpCommand::run and the
\* exit code are those the file, the filter and the commands alone decide:
\* the entries of the filtered list in order, up to the first that fails.
C12_TelemetryBestEffort ==
    binary = "getset" =>
        /\ Started = SubSeq(commands_to_run, 1, Len(calls))
        /\ \A a \in DOMAIN calls : a < Len(calls) => calls[a].ret = "Ok"
        /\ (Filtered /\ ExpectedResult \in {"A command failed", "Ok"}) =>
               commands_to_run =
                   IF IsSome(step) THEN Matches(commands, Unwrap(step))
                                   ELSE [k \in 1..Len(commands) |-> k]
        /\ pc = "exited" =>
               /\ run_result = ExpectedResult
               /\ exit_code = Some(IF ExpectedResult = "Ok" THEN 0 ELSE 1)
               /\ ExpectedResult = "Ok" => Len(calls) = Len(commands_to_run)
        /\ pc # "exited" => run_result = "pending" /\ exit_code = None

\* send_start and send_complete both failed and the run of two commands
\* succeeded all the same
C12_Witness ==
    /\ binary = "getset"
    /\ pc = "exited"
    /\ run_result = "Ok"
    /\ exit_code = Some(0)
    /\ Len(calls) = 2
    /\ Len(events) = 2
    /\ ~events[1].ok
    /\ ~events[2].ok

\* ---------------------------------------------------------------------- C13
\* the names of the events sent, in order
EventNames ==
    [x \in DOMAIN events |-> events[x].name]

\* a run of the current program with a telemetry client, past the loading of
\* the file
ClientRun ==
    binary = "getset" /\ platformx /\ load = "ok" /\ pc # "load"

\* the start event is the first event and is sent before any command is
\* attempted; no terminal event is sent before the run returns
StartEventFirst ==
    ClientRun =>
        /\ pc = "send_start" => events = <<>>
        /\ pc # "send_start" => (events # <<>> /\ events[1].name = "start")
        /\ calls # <<>> => events # <<>>
        /\ pc # "exited" => Len(events) <= 1

\* C13 as claimed: with a telemetry client, a run that got past the loading of
\* the file sends one start event before any command is attempted and exactly
\* one terminal event before it returns: an error event if it fails for any
\* reason, a complete event if it succeeds.
C13_AsClaimed ==
    /\ StartEventFirst
    /\ (ClientRun /\ pc = "exited") =>
           EventNames = <<"start", IF run_result = "Ok" THEN "complete" ELSE "error">>

\* C13 as amended: with a telemetry client, a run that got past the loading
\* of the file sends one start event before any command is attempted; before
\* it returns it sends a complete event (with the elapsed time) if it
\* succeeds, an error event (with the elapsed time and the error of
\* run_command) if a command fails, and no terminal event at all if the
\* --step filter matches no entry. Without a client no event is sent.
C13_Amended ==
    /\ StartEventFirst
    /\ (ClientRun /\ pc = "exited") =>
           /\ run_result = "Ok" =>
                  /\ EventNames = <<"start", "complete">>
                  /\ events[2].elapsed >= 0
           /\ run_result = "A command failed" =>
                  /\ EventNames = <<"start", "error">>
                  /\ events[2].elapsed >= 0
                  /\ events[2].msg = err
                  /\ err # ""
           /\ run_result = "No steps found matching" => EventNames = <<"start">>
    /\ ~platformx => events = <<>>
    /\ load # "ok" => events = <<>>

\* the filter matched nothing: the run failed and the start event is the only
\* event sent
C13_Witness ==
    /\ ClientRun
    /\ pc = "exited"
    /\ run_result = "No steps found matching"
    /\ exit_code = Some(1)
    /\ EventNames = <<"start">>

\* ---------------------------------------------------------------------- C14
\* the invocations that returned Ok, in the order made
Succeeded ==
    LET isOk(c) == c.ret = "Ok"
    IN  SelectSeq(calls, isOk)

\* the elapsed time on the success line printed for entry k
SuccessLineTime(k) ==
    out[CHOOSE x \in LinesOf({"finish_ok"}, k) : TRUE].n

\* results holds, for each invocation that returned Ok and in their order, the
\* title of its entry and the duration it returned, and nothing else
ResultsAreSuccesses ==
    binary = "getset" =>
        /\ Len(results) = Len(Succeeded)
        /\ \A a \in DOMAIN results :
               LET k == commands_to_run[Succeeded[a].pos]
               IN  /\ results[a].title = commands[k].title
                   /\ LinesOf({"finish_ok"}, k) # {}
                   /\ results[a].duration = SuccessLineTime(k)
        /\ \A a \in DOMAIN calls :
               calls[a].ret = "Err" => Len(results) < a

\* a step leaves results alone or appends one entry to it, and that for an
\* invocation that returns Ok in that step
ResultsOnlyGrow ==
    \/ results' = results
    \/ /\ Len(results') = Len(results) + 1
       /\ SubSeq(results', 1, Len(results)) = results
       /\ Last(calls).ret = "pending"
       /\ Last(calls').ret = "Ok"

\* C14: in every reachable state of the loop, results is the sequence of the
\* titles, with the durations returned, of the commands attempted so far that
\* succeeded, in execution order; a failed command is never in it and no
\* entry is ever removed or reordered.
C14_ResultsList ==
    [] ResultsAreSuccesses /\ [][ResultsOnlyGrow]_vars

\* the first command succeeded and is recorded, the second failed and is not
C14_Witness ==
    /\ binary = "getset"
    /\ Len(calls) = 2
    /\ calls[1].ret = "Ok"
    /\ calls[2].ret = "Err"
    /\ Len(results) = 1
    /\ results[1].title = commands[commands_to_run[1]].title

\* ---------------------------------------------------------------------- C15
\* the lines of the report that list a command, in the order printed
ReportItems ==
    LET isItem(l) == l.kind = "report_item"
    IN  SelectSeq(out, isItem)

\* the total lines of the report
ReportTotals ==
    LET isTotal(l) == l.kind = "report_total"
    IN  SelectSeq(out, isTotal)

\* the sum of the times on a sequence of lines
RECURSIVE SumTimes(_)
SumTimes(ls) ==
    IF ls = <<>> THEN 0 ELSE Head(ls).n + SumTimes(Tail(ls))

\* a run with --report that succeeded
ReportedRun ==
    binary = "getset" /\ report /\ pc = "exited" /\ run_result = "Ok"

\* the report has one line per command run, in execution order, each with the
\* duration run_command returned for it, and one total line
ReportListsCommands ==
    ReportedRun =>
        /\ Len(ReportItems) = Len(calls)
        /\ Len(calls) = Len(commands_to_run)
        /\ \A x \in DOMAIN ReportItems :
               /\ ReportItems[x].cmd = x
               /\ results[x].title = commands[commands_to_run[x]].title
               /\ ReportItems[x].n = SuccessLineTime(commands_to_run[x])
        /\ Len(ReportTotals) = 1

\* C15 as claimed: when a run with --report succeeds, the report lists one
\* entry per command run, in execution order, and the durations listed sum to
\* the total reported.
C15_AsClaimed ==
    /\ ReportListsCommands
    /\ ReportedRun => SumTimes(ReportItems) = ReportTotals[1].n

\* C15 as amended: when a run with --report succeeds, the report lists one
\* entry per command run, in execution order, each with the duration of its
\* command; the total reported is the time elapsed since UpCommand::run
\* started its timer, the same as on the summary line, and the durations
\* listed sum to at most that total.
C15_Amended ==
    /\ ReportListsCommands
    /\ ReportedRun =>
           /\ SumTimes(ReportItems) <= ReportTotals[1].n
           /\ \E x \in DOMAIN out :
                  out[x].kind = "all_set" /\ out[x].n = ReportTotals[1].n
           /\ ReportTotals[1].n <= now - timer

\* without a telemetry client, a report of two commands whose durations sum
\* to less than the total
C15_Witness ==
    /\ ReportedRun
    /\ ~platformx
    /\ Len(ReportItems) = 2
    /\ SumTimes(ReportItems) < ReportTotals[1].n

\* ---------------------------------------------------------------------- C16
\* the positions in `out` of the lines of some kinds
KindLines(kinds) ==
    { x \in DOMAIN out : out[x].kind \in kinds }

\* the kinds of line of the report
ReportKinds == {"report", "report_item", "report_total"}

\* every entry of the filtered list was attempted and succeeded
AllSucceeded ==
    /\ load = "ok"
    /\ Filtered
    /\ IsSome(step) => Matching # {}
    /\ Len(calls) = Len(commands_to_run)
    /\ \A a \in DOMAIN calls : calls[a].ret = "Ok"

\* C16: the summary line ("All set!") is printed if and only if every command
\* of the filtered list was attempted and succeeded, and it comes after the
\* finish line of the last command; the report is printed if and only if, in
\* addition, the report flag is set, and it comes after the summary; a run
\* that fails prints neither.
C16_SummaryAndReport ==
    binary = "getset" =>
        /\ Cardinality(KindLines({"all_set"})) <= 1
        /\ pc # "exited" => KindLines({"all_set"} \cup ReportKinds) = {}
        /\ pc = "exited" =>
               /\ KindLines({"all_set"}) # {} <=> AllSucceeded
               /\ KindLines(ReportKinds) # {} <=> (AllSucceeded /\ report)
               /\ run_result # "Ok" => KindLines({"all_set"} \cup ReportKinds) = {}
        /\ \A x \in KindLines({"all_set"}) :
               /\ \A y \in KindLines(FinishKinds \cup {"start", "line"}) : y < x
               /\ \A y \in KindLines(ReportKinds) : x < y
               /\ commands_to_run # <<>> =>
                      LinesOf({"finish_ok"}, Last(commands_to_run)) # {}

\* a run of two commands with --report succeeded: the summary and then the
\* report are printed
C16_Witness ==
    /\ binary = "getset"
    /\ report
    /\ pc = "exited"
    /\ Len(calls) = 2
    /\ AllSucceeded
    /\ KindLines({"all_set"}) # {}
    /\ KindLines(ReportKinds) # {}

\* ---------------------------------------------------------------------- C17
\* the errors of a command whose child exited with a failure status
StatusErrors ==
    {"Command exited with non-zero status", "Command exited with status"}

\* run_command has just returned the error of a child that exited with a
\* failure status
CommandJustFailed ==
    /\ pc \in {"cmd_err", "legacy_err"}
    /\ err \in StatusErrors

\* run_command returns its Err to the loop: the step in which an invocation
\* becomes Err leaves the process running, at the Err arm of the caller
ErrReturnsToCaller ==
    (/\ calls' # calls
     /\ Last(calls').ret = "Err")
    => /\ pc' \in {"cmd_err", "legacy_err"}
       /\ exit_code' = None
       /\ run_result' = "pending"

\* the error names the title of the failed entry and its exit status
ErrNamesTitleAndStatus ==
    CommandJustFailed =>
        /\ \E x \in Range(ErrArgs) :
               /\ x.what = "title"
               /\ x.value = commands[commands_to_run[Last(calls).pos]].title
        /\ \E x \in Range(ErrArgs) : x.what = "status"

\* the error of runner.rs is a fixed text that names neither; that of main.rs
\* names the exit status and not the title
ErrIsFixedText ==
    CommandJustFailed =>
        /\ Last(calls).ret = "Err"
        /\ exit_code = None
        /\ binary = "getset" =>
               /\ err = "Command exited with non-zero status"
               /\ ErrArgs = << >>
        /\ binary = "legacy" =>
               /\ err = "Command exited with status"
               /\ ErrArgs = << [what |-> "status", value |-> 1] >>

\* C17 as claimed: when a command fails, run_command returns a failure value
\* that carries the title of the failing command and a description of its
\* exit status, and it returns instead of ending the process.
C17_AsClaimed ==
    [] ErrNamesTitleAndStatus /\ [][ErrReturnsToCaller]_vars

\* C17 as amended: when a command fails, run_command returns to its caller,
\* which decides what to do, and does not end the process; the failure value
\* of runner.rs is the fixed text "Command exited with non-zero status", with
\* neither the title nor the exit status, and that of the legacy main.rs is a
\* text with the exit status and without the title.
C17_Amended ==
    [] ErrIsFixedText /\ [][ErrReturnsToCaller]_vars

\* the second of two commands exited with status 1 and run_command has
\* returned its error to the loop, the process still running
C17_Witness ==
    /\ binary = "getset"
    /\ CommandJustFailed
    /\ Len(calls) = 2
    /\ Last(procs).code = 1
    /\ exit_code = None

\* ---------------------------------------------------------------------- C18
\* C18: for every invocation of run_command the command text is printed if
\* and only if the verbose flag is set; when printed, it is the line right
\* after the title line of the start marker, and it is there before the child
\* is spawned and so before anything the child writes.
C18_VerboseCommandText ==
    binary = "getset" =>
        /\ \A a \in DOMAIN calls :
               LET k == commands_to_run[a]
               IN  /\ Cardinality(LinesOf({"cmdtext"}, k)) = IF verbose THEN 1 ELSE 0
                   /\ \A x \in LinesOf({"cmdtext"}, k) :
                          /\ x > 1
                          /\ out[x - 1] = Line("start", k, 0)
                          /\ \A y \in LinesOf({"line"} \cup FinishKinds, k) : x < y
        /\ \A p \in DOMAIN procs :
               verbose => LinesOf({"cmdtext"}, commands_to_run[procs[p].pos]) # {}
        /\ Cardinality(KindLines({"cmdtext"})) = IF verbose THEN Len(calls) ELSE 0

\* verbose: the child of the second command has just been spawned and the
\* text of its command is the last line printed
C18_Witness ==
    /\ binary = "getset"
    /\ verbose
    /\ Len(procs) = 2
    /\ Last(procs).pos = 2
    /\ Last(procs).state = "running"
    /\ Last(out) = Line("cmdtext", commands_to_run[2], 0)

\* ---------------------------------------------------------------------- C19
\* the error of a file that cannot be read or parsed
LoadError ==
    IF load = "read_err" THEN "Error reading file"
    ELSE IF binary = "getset" THEN "Error parsing TOML" ELSE "Error parsing YAML"

\* C19: if the file cannot be read or parsed, the run fails with that error
\* before any command is attempted: no start marker is printed, no child is
\* spawned and, in the current program, no telemetry event is sent; the
\* process exits with 1.
C19_LoadErrorBeforeAnything ==
    load # "ok" =>
        /\ calls = <<>>
        /\ procs = <<>>
        /\ events = <<>>
        /\ spinner = <<>>
        /\ commands_to_run = <<>>
        /\ pc \in {"load", "exited"}
        /\ pc = "load" => out = <<>>
        /\ pc = "exited" =>
               /\ run_result = LoadError
               /\ exit_code = Some(1)
               /\ out = <<Line("error", 0, 0)>>

\* a file with two entries and a telemetry section fails to parse: the run is
\* over with the parse error and nothing else has happened
C19_Witness ==
    /\ binary = "getset"
    /\ load = "parse_err"
    /\ platformx
    /\ Len(commands) = 2
    /\ pc = "exited"
    /\ run_result = "Error parsing TOML"

\* ---------------------------------------------------------------------- C20
\* the lines the consumer loop has received from a stream, in the order
\* received
Received(fd) ==
    LET from(l) == l.src = fd
    IN  SelectSeq(output_lines, from)

\* the lines of a stream that are in the channel, front first
Queued(fd) ==
    LET from(m) == m.tag = TagOf(fd)
        ms == SelectSeq(chan, from)
    IN  [x \in DOMAIN ms |-> ms[x].line]

\* the lines a reader thread can read: those that are valid UTF-8
Readable(ls) ==
    LET valid(l) == l.utf8
    IN  SelectSeq(ls, valid)

\* a is a prefix of b
IsPrefix(a, b) ==
    Len(a) <= Len(b) /\ a = SubSeq(b, 1, Len(a))

\* the consumer loop of the current command is over
RelayOver ==
    pc \notin {"load", "recv"}

\* C20 as claimed: for every interleaving of the two reader threads and the
\* consumer loop, the lines received from stdout are exactly the lines the
\* child wrote to stdout, in that order, and likewise for stderr.
C20_AsClaimed ==
    binary = "legacy" =>
        \A fd \in Streams :
            /\ IsPrefix(Received(fd), emitted[fd])
            /\ RelayOver => Received(fd) = emitted[fd]

\* C20 as amended: for every interleaving of the two reader threads and the
\* consumer loop, the lines received from stdout are the lines the child
\* wrote to stdout that could be read, in the order written: a line that is
\* not valid UTF-8 is skipped and the lines after it are still delivered, in
\* order. Likewise for stderr. Every message carries the tag of its stream.
C20_Amended ==
    binary = "legacy" =>
        /\ \A x \in DOMAIN chan : chan[x].tag = TagOf(chan[x].line.src)
        /\ \A fd \in Streams :
               /\ \A x \in DOMAIN pipes[fd] : pipes[fd][x].src = fd
               /\ IsPrefix(Received(fd), Readable(emitted[fd]))
               /\ Received(fd) \o Queued(fd) \o Readable(pipes[fd])
                      = Readable(emitted[fd])
               /\ RelayOver => Received(fd) = Readable(emitted[fd])

\* the child wrote two lines to stdout, both passed through the reader
\* thread and the channel, and the loop received them in the order written
C20_Witness ==
    /\ binary = "legacy"
    /\ RelayOver
    /\ Len(emitted["stdout"]) = 2
    /\ output_lines = <<ChildLine("stdout", 1, TRUE), ChildLine("stdout", 2, TRUE)>>

\* ---------------------------------------------------------------- C21
\* a stream of the current child has reached its end: the child has exited,
\* no descendant holds the write end, and the pipe is empty
AtEndOfStream(fd) ==
    /\ calls # <<>>
    /\ Last(procs).state # "running"
    /\ fd \notin Last(procs).held
    /\ pipes[fd] = <<>>

\* a step that ends the consumer loop `for output in rx`
LoopEnds ==
    pc = "recv" /\ pc' # "recv"

\* C21: once both stdout and stderr of the child have reached end-of-stream,
\* the consumer loop eventually ends (the reader threads and the main thread
\* being scheduled fairly); it never ends while a stream has undelivered
\* lines, and it does not end on the exit of the child alone: it ends only
\* when every write end of both pipes is closed.
C21_LoopEndsAtEndOfStreams ==
    /\ (pc = "recv" /\ \A fd \in Streams : AtEndOfStream(fd)) ~> (pc # "recv")
    /\ [][LoopEnds => /\ \A fd \in Streams : AtEndOfStream(fd)
                      /\ chan = <<>>
                      /\ Len(output_lines) = Len(Readable(emitted["stdout"]))
                                               + Len(Readable(emitted["stderr"]))]_vars

\* the child has exited with status 0 after a line was received, and the
\* loop still waits, with nothing left to deliver, because a descendant holds
\* the write end of stderr
C21_Witness ==
    /\ binary = "legacy"
    /\ pc = "recv"
    /\ Last(procs).state = "exited"
    /\ Last(procs).code = 0
    /\ Last(procs).held = {"stderr"}
    /\ readers = [fd \in Streams |-> IF fd = "stdout" THEN "done" ELSE "running"]
    /\ chan = <<>>
    /\ output_lines # <<>>

\* ---------------------------------------------------------------- C22
\* the lines of a stream the child wrote after a line that could not be read
AfterReadError(fd) ==
    { emitted[fd][y] : y \in { y \in DOMAIN emitted[fd] :
                                 \E x \in 1..(y - 1) : ~emitted[fd][x].utf8 } }

\* the lines of a stream that have left the reader thread: in the channel or
\* received
Delivered(fd) ==
    Range(Queued(fd)) \cup Range(Received(fd))

\* C22 as claimed: when reading a line from a stream yields an error, the
\* reader of that stream produces no line from then on: no line written after
\* the error is delivered from that stream.
C22_AsClaimed ==
    binary = "legacy" =>
        \A fd \in Streams : Delivered(fd) \cap AfterReadError(fd) = {}

\* C22 as amended: a line whose read yields an error is skipped, and only that
\* line: the reader thread runs on to the end of its stream, so every line
\* after the error that can be read is delivered, and a line that cannot is
\* never delivered. The other stream is not affected, and the outcome of the
\* command is that of its exit status.
C22_Amended ==
    (binary = "legacy" /\ calls # <<>>) =>
        /\ \A fd \in Streams :
               /\ readers[fd] = "done" =>
                      (pipes[fd] = <<>> /\ WriteEndsClosed(fd))
               /\ \A l \in Delivered(fd) : l.utf8
               /\ RelayOver =>
                      \A l \in AfterReadError(fd) : l.utf8 => l \in Delivered(fd)
        /\ (Last(calls).ret # "pending" /\ err # "Failed to wait for command")
               => (Last(calls).ret = "Ok" <=> (Children(Len(calls)) # {} /\ Last(procs).code = 0))

\* the child wrote a line to stdout that is not valid UTF-8 and then one that
\* is, it exited with status 0 and the command returned Ok: the second line
\* was received, the first was not
C22_Witness ==
    /\ binary = "legacy"
    /\ calls # <<>>
    /\ Last(calls).ret = "Ok"
    /\ emitted["stdout"] = <<ChildLine("stdout", 1, FALSE), ChildLine("stdout", 2, TRUE)>>
    /\ output_lines = <<ChildLine("stdout", 2, TRUE)>>

\* ---------------------------------------------------------------- C23
\* the child is running and a write to the stream would wait for room
ChildBlocked(fd) ==
    /\ binary = "legacy"
    /\ pc = "recv"
    /\ Last(procs).state = "running"
    /\ PipeFull(fd)

\* the reader thread of the stream can take its next line
ReaderCanRead(fd) ==
    ENABLED (ReaderSend(fd) \/ ReaderSkip(fd))

\* the consumer loop waits: the channel is empty and a sender is alive
ConsumerWaits ==
    /\ binary = "legacy"
    /\ pc = "recv"
    /\ chan = <<>>
    /\ ~Disconnected

\* C23: with pipes of bounded capacity, the child is never blocked for ever
\* on a full pipe: the reader thread of a full pipe can always take a line,
\* whatever the other reader and the consumer do, and eventually does. None
\* of the child, the two reader threads and the consumer waits in a cycle:
\* a consumer that waits does so for a reader that runs, and a reader that
\* cannot read waits for the child or a descendant, which waits for nobody.
C23_NoDeadlock ==
    /\ [](\A fd \in Streams : PipeFull(fd) => ReaderCanRead(fd))
    /\ \A fd \in Streams : ChildBlocked(fd) ~> ~PipeFull(fd)
    /\ [](ConsumerWaits =>
             \E fd \in Streams :
                 /\ ReaderRuns(fd)
                 /\ \/ ReaderCanRead(fd)
                    \/ ENABLED ReaderEof(fd)
                    \/ ~PipeFull(fd) /\ ~WriteEndsClosed(fd))

\* the child runs with its stdout pipe full while the line written before
\* is still in the channel: the consumer has taken nothing yet
C23_Witness ==
    /\ ChildBlocked("stdout")
    /\ chan = << Output("Stdout", ChildLine("stdout", 1, TRUE)) >>
    /\ pipes["stdout"] = << ChildLine("stdout", 2, TRUE) >>
    /\ output_lines = <<>>

\* ---------------------------------------------------------------- C24
\* the lines of its child the current command of the legacy runner has
\* received, as lines of output
RelayedLines ==
    PrintOutputLines(commands_to_run[Last(calls).pos], output_lines)

\* C24 as claimed: in piped mode every line relayed from the child's stdout
\* is written to the parent's stdout and every line relayed from its stderr
\* to the parent's stderr, at the time it arrives, whether the command later
\* succeeds or fails.
C24_AsClaimed ==
    (binary = "legacy" /\ calls # <<>>) =>
        \A j \in DOMAIN RelayedLines :
            \E x \in DOMAIN out :
                out[x] = RelayedLines[j] /\ PrintedTo(out[x]) = out[x].fd

\* C24 as amended: the current runner relays nothing: without a
\* pseudo-terminal the child inherits the parent's stdout and stderr and each
\* line it writes is on the terminal at once. The legacy runner writes no line
\* as it arrives: a line received is shown on the spinner and kept; the lines
\* of a command that succeeds are never written, and those of a command that
\* fails are written after its failure marker, all of them to stdout, those
\* of stderr too.
C24_Amended ==
    /\ binary = "getset" =>
           /\ \A x \in DOMAIN out : out[x].kind = "line" => PrintedTo(out[x]) = "tty"
           /\ (procs # <<>> /\ Last(procs).state # "reaped") =>
                  Cardinality(LinesOf({"line"}, commands_to_run[Last(procs).pos]))
                      = Last(procs).written
    /\ binary = "legacy" =>
           /\ \A x \in DOMAIN out :
                  out[x].kind = "line" =>
                      /\ PrintedTo(out[x]) = "stdout"
                      /\ calls[Len(calls)].ret = "Err"
                      /\ err = "Command exited with status"
                      /\ commands_to_run[Last(calls).pos] = out[x].cmd
           /\ \A a \in DOMAIN calls :
                  calls[a].ret \in {"pending", "Ok"} =>
                      LinesOf({"line"}, commands_to_run[calls[a].pos]) = {}
           /\ spinner # <<>> => Len(spinner) = Len(output_lines) + 1

\* the legacy runner has received a line of stderr of a command that is still
\* running: the spinner shows it and nothing was written
C24_Witness ==
    /\ binary = "legacy"
    /\ pc = "recv"
    /\ output_lines = << ChildLine("stderr", 1, TRUE) >>
    /\ spinner = << SpinnerMsg(commands_to_run[1], 0, ""),
                    SpinnerMsg(commands_to_run[1], 1, "stderr") >>
    /\ out = <<>>

\* ---------------------------------------------------------------- C25
\* the elapsed times run_command has reported for the child: those of its
\* finish line
ReportedElapsed(p) ==
    { out[x].n : x \in LinesOf(FinishKinds, commands_to_run[p.pos]) }

\* the children of the current runner that were waited on
Waited ==
    { p \in Range(procs) : binary = "getset" /\ p.state = "reaped" }

\* C25 as claimed: the elapsed time of a command is measured from immediately
\* before the spawn of its process to the completion of the wait, in PTY mode
\* too, where the timer starts after the pseudo-terminal was allocated.
C25_AsClaimed ==
    \A p \in Waited : ReportedElapsed(p) = { p.waited - p.spawned }

\* C25 as amended: without a pseudo-terminal the elapsed time of a command is
\* measured from immediately before the spawn to the completion of the wait,
\* also after a fallback, whose failed attempt is not counted. In PTY mode
\* the timer starts before the pseudo-terminal is allocated, so the time
\* reported is that from spawn to wait plus the time of the allocation.
C25_Amended ==
    \A p \in Waited :
        \E e \in 0..now :
            /\ ReportedElapsed(p) = { e }
            /\ ~p.pty => e = p.waited - p.spawned
            /\ p.pty => e > p.waited - p.spawned
            /\ \A r \in DOMAIN results :
                   (Len(calls) >= p.pos /\ calls[p.pos].ret = "Ok"
                    /\ r = Cardinality({ a \in 1..p.pos : calls[a].ret = "Ok" }))
                       => results[r].duration = e

\* a command has run on a pseudo-terminal and succeeded, and the time
\* reported for it is longer than that from its spawn to the end of the wait
C25_Witness ==
    /\ binary = "getset"
    /\ Len(results) = 1
    /\ \E p \in Waited :
           /\ p.pty
           /\ p.code = 0
           /\ results[1].duration > p.waited - p.spawned

\* ---------------------------------------------------------------- C26
\* the positions of run_command in which a pseudo-terminal is being opened,
\* is open, or carries the child
PtyStages == {"pty_open", "pty_spawn", "pty_wait"}

\* a step in which the current runner begins a command
CommandBegins ==
    binary = "getset" /\ Len(calls') = Len(calls) + 1

\* C26: a command begins with the allocation of a pseudo-terminal if and only
\* if the standard output of the parent is a terminal; if it is not, the
\* command goes straight to the execution without one, and no
\* pseudo-terminal is ever opened nor any child run on one.
C26_PtyIffTerminal ==
    /\ [][CommandBegins => /\ pc' = "pty_open" <=> is_terminal
                           /\ pc' = "spawn" <=> ~is_terminal]_vars
    /\ [][(pc' = "pty_open" /\ pc # "pty_open") => CommandBegins]_vars
    /\ [](~is_terminal => /\ pc \notin PtyStages
                          /\ \A p \in Range(procs) : ~p.pty)

\* standard output is no terminal, two commands have been begun and each has
\* had its child, neither on a pseudo-terminal
C26_Witness ==
    /\ binary = "getset"
    /\ ~is_terminal
    /\ Len(calls) = 2
    /\ Len(procs) = 2
    /\ \A p \in Range(procs) : ~p.pty

\* ---------------------------------------------------------------- C27
\* the lines that are on their way from the child to the loop: in a pipe or
\* in the channel
InFlight ==
    UNION { Range(pipes[fd]) : fd \in Streams } \cup { m.line : m \in Range(chan) }

\* the legacy runner is between two commands: the one before has returned and
\* the next can start
BetweenCommands ==
    /\ binary = "legacy"
    /\ pc = "loop"
    /\ calls # <<>>

\* C27: every invocation of run_command has a channel of its own. When the
\* next command can start, the channel of the command before is closed (both
\* reader threads have ended and released their senders) and drained, and
\* nothing is left in its pipes, so no line of a command is delivered to or
\* after the start of the next; every line a command has in flight or has
\* received was written by its own child.
C27_ChannelPerCommand ==
    /\ BetweenCommands =>
           /\ Last(calls).ret = "Ok"
           /\ Disconnected
           /\ InFlight = {}
           /\ \A fd \in Streams : Range(Readable(emitted[fd])) \subseteq Range(output_lines)
    /\ (binary = "legacy" /\ pc = "recv") =>
           /\ \A l \in InFlight \cup Range(output_lines) : l \in Range(emitted[l.src])
           /\ Len(output_lines) + Cardinality({ l \in InFlight : l.utf8 })
                  <= Len(Readable(emitted["stdout"])) + Len(Readable(emitted["stderr"]))

\* the second command runs and has received the first line of its child,
\* a line of stderr, after a first command whose child was waited on
C27_Witness ==
    /\ binary = "legacy"
    /\ pc = "recv"
    /\ Len(calls) = 2
    /\ procs[1].state = "reaped"
    /\ output_lines = << ChildLine("stderr", 1, TRUE) >>
    /\ spinner[1] = SpinnerMsg(commands_to_run[2], 0, "")

\* ---------------------------------------------------------------- C28
\* how often a sequence holds a value
Count(s, v) ==
    Cardinality({ x \in DOMAIN s : s[x] = v })

\* every line the current child has written could be read
NoReadErrors ==
    \A fd \in Streams : \A l \in Range(emitted[fd]) : l.utf8

\* the stream an Output names
StreamOf(m) ==
    IF m.tag = "Stdout" THEN "stdout" ELSE "stderr"

\* C28: if no read fails, every line the child writes to stdout or stderr is
\* received by the loop exactly once, and travels with the tag of the stream
\* it was written to: until it is received it is once in its pipe or once in
\* the channel, under its own tag, and once the loop has ended it was
\* received once and the spinner has shown it with its stream.
C28_EveryLineOnceWithItsTag ==
    (binary = "legacy" /\ calls # <<>> /\ NoReadErrors) =>
        /\ \A m \in Range(chan) :
               /\ m.tag \in {"Stdout", "Stderr"}
               /\ m.line.src = StreamOf(m)
               /\ m.line \in Range(emitted[StreamOf(m)])
        /\ \A fd \in Streams :
               \A l \in Range(emitted[fd]) :
                   /\ l.src = fd
                   /\ Count(emitted[fd], l) = 1
                   /\ Count(pipes[fd], l) + Count(chan, Output(TagOf(fd), l))
                          + Count(output_lines, l) = 1
                   /\ RelayOver =>
                          /\ Count(output_lines, l) = 1
                          /\ spinner # <<>> =>
                                 \E j \in DOMAIN spinner :
                                     spinner[j].n = l.n /\ spinner[j].fd = fd
        /\ Len(output_lines) <= Len(emitted["stdout"]) + Len(emitted["stderr"])

\* the child wrote one line to each of its streams, both readable; the loop
\* received both, the line of stdout first, and has ended
C28_Witness ==
    /\ binary = "legacy"
    /\ pc = "legacy_wait"
    /\ emitted = [fd \in Streams |-> << ChildLine(fd, 1, TRUE) >>]
    /\ output_lines = << ChildLine("stdout", 1, TRUE), ChildLine("stderr", 1, TRUE) >>

\* ---------------------------------------------------------------- C29
\* run_command is about to try a spawn: on the pseudo-terminal or without
SpawnStages == {"pty_spawn", "spawn"}

\* no command has two children, and a spawn is tried only while the command
\* has none
OneChildPerCommand ==
    binary = "getset" =>
        /\ \A a \in DOMAIN calls : Cardinality(Children(a)) <= 1
        /\ \A p \in DOMAIN procs : procs[p].pos \in DOMAIN calls
        /\ pc \in SpawnStages => Children(Len(calls)) = {}

\* a step that takes run_command to a spawn stage: to that on the
\* pseudo-terminal only from its allocation, to that without from the
\* beginning of the command or from a failure of the allocation or of the
\* spawn on the pseudo-terminal, and from there never back
SpawnStageStep ==
    /\ (pc' = "pty_spawn" /\ pc # "pty_spawn") => (pc = "pty_open" /\ calls' = calls)
    /\ (pc' = "spawn" /\ pc # "spawn") =>
           \/ CommandBegins /\ ~is_terminal
           \/ pc \in {"pty_open", "pty_spawn"} /\ calls' = calls /\ procs' = procs
    /\ (pc = "pty_spawn" /\ pc' # pc) => pc' \in {"pty_wait", "spawn"}
    /\ (pc = "spawn" /\ pc' # pc) => pc' \in {"wait", "cmd_err"}
    /\ (pc' = "pty_open" /\ pc # "pty_open") => CommandBegins

\* C29: within one invocation of run_command a child is spawned at most once:
\* the execution without a pseudo-terminal is entered, other than directly,
\* only from a failure of the allocation or of the spawn on the
\* pseudo-terminal, while the command has no child, so no command is run
\* twice; run_command passes each of its two spawns at most once, so at most
\* two spawns are tried for a command.
C29_SpawnedAtMostOnce ==
    [] OneChildPerCommand /\ [][SpawnStageStep]_vars

\* on a terminal the first command ran on a pseudo-terminal and the second,
\* after a fallback, has its only child without one
C29_Witness ==
    /\ binary = "getset"
    /\ is_terminal
    /\ Len(calls) = 2
    /\ pc = "wait"
    /\ Len(procs) = 2
    /\ procs[1].pty /\ procs[1].pos = 1
    /\ ~procs[2].pty /\ procs[2].pos = 2

\* ---------------------------------------------------------------- C30
\* the errors of run_command that are no exit status: the process could not
\* be spawned or not be waited on
InfrastructureErrors ==
    {"Failed to spawn command", "Failed to wait for command"}

\* the command that failed: the last one called
FailedCall == Len(calls)

\* C30: a failure of the wait in PTY mode is not recovered from by the
\* fallback: run_command returns it at once, with no execution without a
\* pseudo-terminal and no finish marker. A failure of the spawn or of the wait
\* without a pseudo-terminal is returned to the loop likewise, and the loop
\* halts: no later command is begun and the run ends in failure.
C30_InfrastructureErrorsHalt ==
    (binary = "getset" /\ err \in InfrastructureErrors) =>
        /\ pc \in {"cmd_err", "exited"}
        /\ calls[FailedCall].ret = "Err"
        /\ FailedCall = i + 1
        /\ \A a \in 1..(FailedCall - 1) : calls[a].ret = "Ok"
        /\ LinesOf(FinishKinds, commands_to_run[FailedCall]) = {}
        /\ StartMarkers = FailedCall
        /\ err = "Failed to spawn command" => Children(FailedCall) = {}
        /\ err = "Failed to wait for command" =>
               /\ Cardinality(Children(FailedCall)) = 1
               /\ \A p \in Children(FailedCall) : procs[p].state # "reaped"
               /\ ~is_terminal => \A p \in Children(FailedCall) : ~procs[p].pty
        /\ pc = "exited" =>
               /\ run_result = "A command failed"
               /\ exit_code = Some(1)

\* on a terminal the wait on the child on the pseudo-terminal has failed for
\* the second command and the run has ended: that child is the only one of
\* the command
C30_Witness ==
    /\ binary = "getset"
    /\ pc = "exited"
    /\ err = "Failed to wait for command"
    /\ Len(calls) = 2
    /\ Len(procs) = 2
    /\ procs[2].pty
    /\ procs[2].pos = 2

\* ---------------------------------------------------------------- C31
\* a reader thread of the current command can still deliver a line: it runs,
\* or a line of its stream is on its way
CanStillDeliver ==
    \/ \E fd \in Streams : ReaderRuns(fd)
    \/ InFlight # {}

\* child.wait() of the current command of the legacy runner has been called
WaitCalled ==
    /\ binary = "legacy"
    /\ calls # <<>>
    /\ \/ pc \in {"legacy_wait", "legacy_result"}
       \/ Children(Len(calls)) # {} /\ Last(procs).state = "reaped"
       \/ err = "Failed to wait for command"

\* the finish marker of the current command of the legacy runner is printed
MarkerPrinted ==
    /\ binary = "legacy"
    /\ calls # <<>>
    /\ LinesOf(FinishKinds, commands_to_run[Last(calls).pos]) # {}

\* the shell child has exited and a descendant holds one of its pipes open
HeldOpen ==
    /\ binary = "legacy"
    /\ procs # <<>>
    /\ Last(procs).state = "exited"
    /\ Last(procs).held # {}

\* C31: in the legacy runner child.wait() is called only after the channel
\* has closed, both streams being at their end, so the success or failure
\* marker is never printed while a reader thread can still deliver a line. A
\* child that has exited while a descendant holds its stdout or stderr pipe
\* open therefore blocks the run: until that pipe closes the loop goes on
\* receiving, the child is not waited on, nothing is printed and the command
\* does not return.
C31_WaitAfterChannelClosed ==
    /\ [](WaitCalled =>
             /\ ~CanStillDeliver
             /\ Last(procs).held = {}
             /\ Last(procs).state # "running")
    /\ [](MarkerPrinted => (WaitCalled /\ ~CanStillDeliver))
    /\ [](HeldOpen => (pc = "recv" /\ ~WaitCalled /\ ~MarkerPrinted
                       /\ Last(calls).ret = "pending"))
    /\ [][HeldOpen => (pc' = "recv" /\ out' = out /\ calls' = calls
                       /\ Last(procs').state = "exited")]_vars

\* the shell child has exited with status 1 and every line it wrote was
\* received, but a descendant holds both pipes open: both reader threads still
\* run and the loop waits
C31_Witness ==
    /\ HeldOpen
    /\ Last(procs).code = 1
    /\ Last(procs).held = Streams
    /\ \A fd \in Streams : ReaderRuns(fd)
    /\ InFlight = {}
    /\ Len(output_lines) = 2
    /\ out = <<>>
====
